---- MODULE Spec2Model ----
(***************************************************************************)
(* hyper-nat relay engine (src/lib/dht-relay.js): the TCP, UDP and         *)
(* TCP-over-datagram bridges and the TCP client's readiness probe; and the *)
(* start-up of the forwarders: CLI (lib/cli.js), ConfigManager             *)
(* (lib/config.js) and ModeHandler (lib/modes.js).                         *)
(*                                                                         *)
(* One action is one event-handler invocation: the handler the source      *)
(* registers for the event, together with the listeners that net.Socket    *)
(* (allowHalfOpen) and pump() attach to the same event.                    *)
(***************************************************************************)
EXTENDS Integers, Sequences, FiniteSets, TLC

VARIABLES
    br,         \* bridge id -> the closure state of one connection handler
    proc,       \* "running" | "exited" (process.exit(1) after an uncaught exception)
    pc,         \* createTcpClient: position in the probe loop
    attempts,   \* createTcpClient: let attempts
    lastError,  \* createTcpClient: let lastError
    clock,      \* milliseconds since createTcpClient was called
    timer,      \* deadline of the pending setTimeout of the probe, or NoTimer
    testSocket, \* state of the current probe session
    listening,  \* the local net.Server is bound on (127.0.0.1, localPort)
    thrown,     \* the error createTcpClient rejected with, or NoError
    hist,       \* history of the probe: connects made, their times, their errors
    argv,       \* CLI.main: the parsed command line (and the config file it names)
    cli,        \* CLI.main: "main" | "awaiting" | "steady" | "configError" | "startupError" | "crashed"
    run,        \* ConfigManager.runFromConfig: its promise, its flag and publicKeys
    fw,         \* one record per forwarder of the schema, in schema order
    out,        \* the client command lines written to the console, in order
    lib,        \* the DHTRelay instances, their overlay nodes and the pending initialize() calls
    wire        \* the payload in transit through a tunnel, hop by hop

vars == <<br, proc, pc, attempts, lastError, clock, timer, testSocket, listening, thrown, hist,
          argv, cli, run, fw, out, lib, wire>>
probeVars == <<pc, attempts, lastError, clock, timer, testSocket, listening, thrown, hist>>
mgrVars == <<argv, cli, run, fw, out>>

----------------------------------------------------------------------------
(* Bounds of the model *)

\* saturation of the counters that count cleanup() invocations and end() calls
MaxCount == 2
\* the largest number of forwarders one process starts
MaxForwarders == 2
\* granularity of the clock, in milliseconds
TickMs == 1000
\* the largest number of initialize() calls made on the DHTRelay instances
MaxCalls == 3
\* the number of chunks the application writes into a tunnel
MaxChunks == 2
\* the largest portCount passed to parseProtocolList
MaxPorts == 3

(* Program constants *)
ProbeAttempts == 3
ProbeTimeoutMs == 15000
RetryDelayMs == 1000

Bridges == {"b1", "b2"}
TcpKinds == {"tcpS", "tcpC"}
UdpKinds == {"udpS", "udpC"}
TuKinds == {"tuS", "tuC"}
Kinds == TcpKinds \cup UdpKinds \cup TuKinds
KindRank(k) == CHOOSE i \in 1..6 : <<"tcpS", "tcpC", "udpS", "udpC", "tuS", "tuC">>[i] = k
Ports == {55000, 55001}
NoPort == 0
NoTimer == 0 - 1
NoError == "none"
TimeoutError == "Connection timeout after 15 seconds"
Errors == {TimeoutError, "PEER_NOT_FOUND"}

Min(a, b) == IF a < b THEN a ELSE b
Bump(n) == Min(n + 1, MaxCount)

----------------------------------------------------------------------------
(* The state of one bridge: the variables of the connection callback's     *)
(* closure and the state of its two endpoints.                             *)

NewBridge(k) ==
    [ kind |-> k,
      st |-> "none",              \* none | connecting | live | failed
      destroyed |-> FALSE,        \* let destroyed (TCP and UDP engines)
      tcpEnded |-> FALSE,         \* let tcpEnded of the connection closure
      udpEnded |-> FALSE,         \* let udpEnded of the connection closure
      hTcpEnded |-> FALSE,        \* tcpEnded as seen by the setup*Handlers helper
      hUdpEnded |-> FALSE,        \* udpEnded as seen by the setup*Handlers helper
      localReadEnded |-> FALSE,   \* the local socket has emitted 'end'
      localWriteEnded |-> FALSE,  \* end() has been called on the local socket
      localDestroyed |-> FALSE,   \* local socket destroyed (or dgram socket closed)
      localClosed |-> FALSE,      \* the local socket has emitted 'close'
      remoteReadEnded |-> FALSE,  \* the overlay session has emitted 'end'
      remoteWriteEnded |-> FALSE, \* end() has been called on the overlay session
      remoteDestroyed |-> FALSE,  \* overlay session destroyed
      remoteClosed |-> FALSE,     \* the overlay session has emitted 'close'
      connected |-> FALSE,        \* 'connect' (local) or 'open' (overlay) has fired
      timer |-> FALSE,            \* the per-bridge connect timer is pending
      connects |-> 0,             \* node.connect() calls made for this connection
      pumped |-> FALSE,           \* pump's completion callback has run
      inport |-> NoPort,          \* let inport (UDP client)
      rinfo |-> NoPort,           \* rinfo.port of the last local datagram (UDP client)
      dest |-> NoPort,            \* port of the last server.send(buf, port) (UDP client)
      fault |-> FALSE,            \* an error, timeout or throw has occurred
      cleanupCalls |-> 0,         \* invocations of cleanup()/gracefulClose()
      bodyRuns |-> 0,             \* times destroyed went from false to true
      cEndL |-> 0,                \* end()/close() calls of the cleanup body, local
      cEndO |-> 0,                \* end() calls of the cleanup body, overlay
      ev |-> "none",              \* the last handler that ran on this bridge
      io |-> "idle" ]             \* what it did: idle | toLocal | toOverlay |
                                  \*   dropLocal | dropOverlay | threw

LocalWritable(r) == ~r.localWriteEnded /\ ~r.localDestroyed
RemoteWritable(r) == ~r.remoteWriteEnded /\ ~r.remoteDestroyed

\* socket.readyState === 'open': connected, readable and writable
ReadyStateOpen(r) == r.connected /\ ~r.localReadEnded /\ LocalWritable(r)

Mark(r, e, i) == [r EXCEPT !.ev = e, !.io = i]

Running == proc = "running"
Set(b, r) == br' = [br EXCEPT ![b] = r]

----------------------------------------------------------------------------
(* The payload of one tunnel: the application writes to the client's local *)
(* port, the client bridge forwards to the overlay, the server bridge      *)
(* forwards to the target service, and the same way back.  Every hop is a  *)
(* FIFO queue of chunks (a TCP chunk, a datagram); the overlay neither     *)
(* loses nor reorders.  With on = FALSE the payload is not followed.       *)

NoWire ==
    [ on |-> FALSE,
      conn |-> "none",     \* the application's TCP connect: none | accepted | refused
      sent |-> <<>>,       \* every chunk the application has written, in order
      app |-> <<>>,        \* written by the application, unread by the client bridge
      up |-> <<>>,         \* sent on the overlay by the client, unread by the server
      target |-> <<>>,     \* written to the target service by the server bridge
      echoed |-> 0,        \* chunks of target the service has answered
      resp |-> <<>>,       \* written by the target service, unread by the server bridge
      down |-> <<>>,       \* sent on the overlay by the server, unread by the client
      back |-> <<>> ]      \* written to the application by the client bridge

ClientKinds == {"tcpC", "udpC", "tuC"}

\* the hops a bridge reads from and writes to
LocalIn(r) == IF r.kind \in ClientKinds THEN "app" ELSE "resp"
LocalOut(r) == IF r.kind \in ClientKinds THEN "back" ELSE "target"
OverlayIn(r) == IF r.kind \in ClientKinds THEN "down" ELSE "up"
OverlayOut(r) == IF r.kind \in ClientKinds THEN "up" ELSE "down"

\* a chunk is waiting on hop q / every chunk of hop q has been read
Pending(q) == wire.on => wire[q] # <<>>
Drained(q) == wire.on => wire[q] = <<>>

\* A hop that hands the chunk on twice.
ForwardTwice(from, to) ==
    wire' = IF wire.on
            THEN [wire EXCEPT ![from] = Tail(@),
                              ![to] = Append(Append(@, Head(wire[from])), Head(wire[from]))]
            ELSE wire

\* A hop that puts the chunk ahead of the chunks written before it.
ForwardAhead(from, to) ==
    wire' = IF wire.on
            THEN [wire EXCEPT ![from] = Tail(@), ![to] = <<Head(wire[from])>> \o @]
            ELSE wire

\* dest.write(chunk) / rawStream.send(buf) / socket.send(buf): the chunk read
\* from one hop is written, unchanged, at the end of the next
Forward(from, to) ==
    wire' = IF wire.on
            THEN [wire EXCEPT ![from] = Tail(@), ![to] = Append(@, Head(wire[from]))]
            ELSE wire

\* the chunk is read and written nowhere
Discard(from) ==
    wire' = IF wire.on THEN [wire EXCEPT ![from] = Tail(@)] ELSE wire

\* the local listener accepts the application's TCP connection
Accept == wire' = IF wire.on THEN [wire EXCEPT !.conn = "accepted"] ELSE wire

----------------------------------------------------------------------------
(* TCP engine: createTcpServer / createTcpClient *)

\* A cleanup that sets the flag but forgets to end the endpoints.
TcpCleanupNoEnd(r) ==
    IF ~r.destroyed
    THEN [r EXCEPT !.destroyed = TRUE,
                   !.bodyRuns = Bump(@),
                   !.cleanupCalls = Bump(@)]
    ELSE [r EXCEPT !.cleanupCalls = Bump(@)]

\* A cleanup without the destroyed guard.
TcpCleanupUnguarded(r) ==
    [r EXCEPT !.destroyed = TRUE,
              !.bodyRuns = Bump(@),
              !.localWriteEnded = TRUE, !.cEndL = Bump(@),
              !.remoteWriteEnded = TRUE, !.cEndO = Bump(@),
              !.cleanupCalls = Bump(@)]

\* const cleanup = () => { if (!destroyed) { destroyed = true; socket.end(); servsock.end(); } }
TcpCleanup(r) ==
    IF ~r.destroyed
    THEN [r EXCEPT !.destroyed = TRUE,
                   !.bodyRuns = Bump(@),
                   !.localWriteEnded = TRUE, !.cEndL = Bump(@),
                   !.remoteWriteEnded = TRUE, !.cEndO = Bump(@),
                   !.cleanupCalls = Bump(@)]
    ELSE [r EXCEPT !.cleanupCalls = Bump(@)]

\* pump(a, b, a, cb): the stream whose writable side is last in the chain
\* (servsock in the server, local in the client)
LastIsLocal(r) == r.kind = "tcpC"

\* A completion callback that only logs and never calls cleanup().
PumpCallbackNoCleanup(r) ==
    [r EXCEPT !.localDestroyed = TRUE, !.remoteDestroyed = TRUE, !.pumped = TRUE]

\* pump's completion: every stream is destroyed, then cb runs cleanup()
PumpCallback(r) ==
    TcpCleanup([r EXCEPT !.localDestroyed = TRUE, !.remoteDestroyed = TRUE,
                         !.pumped = TRUE])

\* pump on a stream error: every stream is destroyed; when the erroring stream
\* is the last of the chain its completion callback runs in the same emit
PumpOnError(r, isLast) ==
    IF isLast /\ ~r.pumped
    THEN PumpCallback(r)
    ELSE [r EXCEPT !.localDestroyed = TRUE, !.remoteDestroyed = TRUE]

\* server.on("connection", (servsock) => { net.connect(...); ...; pump(...) })
TcpServerConnection(b) ==
    /\ Running /\ br[b].kind = "tcpS" /\ br[b].st = "none"
    /\ Set(b, Mark([br[b] EXCEPT !.st = "live"], "connection", "idle"))
    /\ UNCHANGED <<proc, probeVars, mgrVars, lib, wire>>

\* net.createServer({allowHalfOpen: false}, (local) => { node.connect(...); setTimeout(...); ... })
TcpClientConnection(b) ==
    /\ Running /\ br[b].kind = "tcpC" /\ br[b].st = "none"
    /\ listening
    /\ Set(b, Mark([br[b] EXCEPT !.st = "live", !.timer = TRUE, !.connected = FALSE,
                                 !.connects = Bump(@)],
                   "connection", "idle"))
    /\ Accept
    /\ UNCHANGED <<proc, probeVars, mgrVars, lib>>

\* An 'open' handler that leaves the connect timer armed.
TcpRemoteOpenKeepsTimer(b) ==
    /\ Running /\ br[b].kind = "tcpC" /\ br[b].st = "live"
    /\ ~br[b].connected /\ ~br[b].remoteDestroyed
    /\ Set(b, Mark([br[b] EXCEPT !.connected = TRUE], "open", "idle"))
    /\ UNCHANGED <<proc, probeVars, mgrVars, lib, wire>>

\* socket.on('open', () => { clearTimeout(connectTimeout); })
TcpRemoteOpen(b) ==
    /\ Running /\ br[b].kind = "tcpC" /\ br[b].st = "live"
    /\ ~br[b].connected /\ ~br[b].remoteDestroyed
    /\ Set(b, Mark([br[b] EXCEPT !.connected = TRUE, !.timer = FALSE], "open", "idle"))
    /\ UNCHANGED <<proc, probeVars, mgrVars, lib, wire>>

\* const connectTimeout = setTimeout(() => { cleanup(); }, 15000)
TcpConnectTimeout(b) ==
    /\ Running /\ br[b].kind = "tcpC" /\ br[b].st = "live"
    /\ br[b].timer
    /\ Set(b, Mark(TcpCleanup([br[b] EXCEPT !.timer = FALSE, !.fault = TRUE]),
                   "timeout", "idle"))
    /\ UNCHANGED <<proc, probeVars, mgrVars, lib, wire>>

\* socket.on('timeout', () => { cleanup(); })   (net.connect({timeout: 15000}))
TcpLocalTimeout(b) ==
    /\ Running /\ br[b].kind = "tcpS" /\ br[b].st = "live"
    /\ ~br[b].localDestroyed
    /\ Set(b, Mark(TcpCleanup([br[b] EXCEPT !.fault = TRUE]), "timeout", "idle"))
    /\ UNCHANGED <<proc, probeVars, mgrVars, lib, wire>>

\* socket.on('error') / local.on('error'): cleanup(); pump destroys the streams
TcpLocalError(b) ==
    /\ Running /\ br[b].kind \in TcpKinds /\ br[b].st = "live"
    /\ ~br[b].localDestroyed
    /\ Set(b, Mark(PumpOnError(TcpCleanup([br[b] EXCEPT !.localDestroyed = TRUE,
                                                        !.fault = TRUE]),
                               LastIsLocal(br[b])),
                   "localError", "idle"))
    /\ UNCHANGED <<proc, probeVars, mgrVars, lib, wire>>

\* servsock.on('error') / socket.on('error'): cleanup(); pump destroys the streams
TcpRemoteError(b) ==
    /\ Running /\ br[b].kind \in TcpKinds /\ br[b].st = "live"
    /\ ~br[b].remoteDestroyed
    /\ Set(b, Mark(PumpOnError(TcpCleanup([br[b] EXCEPT !.remoteDestroyed = TRUE,
                                                        !.fault = TRUE]),
                               ~LastIsLocal(br[b])),
                   "remoteError", "idle"))
    /\ UNCHANGED <<proc, probeVars, mgrVars, lib, wire>>

\* socket.on('end', () => { servsock.end(); }) on a socket created with
\* allowHalfOpen: false, which ends its own writable side when it reads EOF
TcpLocalEnd(b) ==
    /\ Running /\ br[b].kind \in TcpKinds /\ br[b].st = "live"
    /\ ~br[b].localReadEnded /\ ~br[b].localDestroyed
    /\ Drained(LocalIn(br[b]))
    /\ Set(b, Mark([br[b] EXCEPT !.localReadEnded = TRUE,
                                 !.localWriteEnded = TRUE,
                                 !.remoteWriteEnded = TRUE],
                   "localEnd", "idle"))
    /\ UNCHANGED <<proc, probeVars, mgrVars, lib, wire>>

\* servsock.on('end', () => { socket.end(); })
TcpRemoteEnd(b) ==
    /\ Running /\ br[b].kind \in TcpKinds /\ br[b].st = "live"
    /\ ~br[b].remoteReadEnded /\ ~br[b].remoteDestroyed
    /\ Drained(OverlayIn(br[b]))
    /\ Set(b, Mark([br[b] EXCEPT !.remoteReadEnded = TRUE,
                                 !.localWriteEnded = TRUE],
                   "remoteEnd", "idle"))
    /\ UNCHANGED <<proc, probeVars, mgrVars, lib, wire>>

\* pump: a chunk read from the local socket is written to the overlay stream
TcpLocalData(b) ==
    /\ Running /\ br[b].kind \in TcpKinds /\ br[b].st = "live"
    /\ ~br[b].localReadEnded /\ ~br[b].localDestroyed
    /\ Pending(LocalIn(br[b]))
    /\ Set(b, Mark(br[b], "localData",
                   IF RemoteWritable(br[b]) THEN "toOverlay" ELSE "dropOverlay"))
    /\ IF RemoteWritable(br[b])
       THEN Forward(LocalIn(br[b]), OverlayOut(br[b]))
       ELSE Discard(LocalIn(br[b]))
    /\ UNCHANGED <<proc, probeVars, mgrVars, lib>>

\* pump: a chunk read from the overlay stream is written to the local socket
TcpRemoteData(b) ==
    /\ Running /\ br[b].kind \in TcpKinds /\ br[b].st = "live"
    /\ ~br[b].remoteReadEnded /\ ~br[b].remoteDestroyed
    /\ Pending(OverlayIn(br[b]))
    /\ Set(b, Mark(br[b], "remoteData",
                   IF LocalWritable(br[b]) THEN "toLocal" ELSE "dropLocal"))
    /\ IF LocalWritable(br[b])
       THEN Forward(OverlayIn(br[b]), LocalOut(br[b]))
       ELSE Discard(OverlayIn(br[b]))
    /\ UNCHANGED <<proc, probeVars, mgrVars, lib>>

\* pump(..., (err) => { cleanup(); }): runs once the last stream of the chain
\* has finished its writable side or was destroyed
PumpDone(b) ==
    /\ Running /\ br[b].kind \in TcpKinds /\ br[b].st = "live"
    /\ ~br[b].pumped
    /\ IF LastIsLocal(br[b])
       THEN br[b].localWriteEnded \/ br[b].localDestroyed
       ELSE br[b].remoteWriteEnded \/ br[b].remoteDestroyed
    /\ Set(b, Mark(PumpCallback(br[b]), "pump", "idle"))
    /\ UNCHANGED <<proc, probeVars, mgrVars, lib, wire>>

TcpNext(b) ==
    \/ TcpServerConnection(b)
    \/ TcpClientConnection(b)
    \/ TcpRemoteOpen(b)
    \/ TcpConnectTimeout(b)
    \/ TcpLocalTimeout(b)
    \/ TcpLocalError(b)
    \/ TcpRemoteError(b)
    \/ TcpLocalEnd(b)
    \/ TcpRemoteEnd(b)
    \/ TcpLocalData(b)
    \/ TcpRemoteData(b)
    \/ PumpDone(b)

----------------------------------------------------------------------------
(* The process: an exception no handler catches reaches                    *)
(* process.on('uncaughtException') / process.on('unhandledRejection'),     *)
(* which call process.exit(1).                                             *)

\* process.on('uncaughtException', (error) => { process.exit(1); })
UncaughtException(p) == "exited"

----------------------------------------------------------------------------
(* UDP engine: createUdpServer *)

\* const cleanup = () => { if (!destroyed) { destroyed = true; client.close(); conn.end(); } }
UdpCleanup(r) ==
    IF ~r.destroyed
    THEN [r EXCEPT !.destroyed = TRUE,
                   !.bodyRuns = Bump(@),
                   !.localDestroyed = TRUE, !.localClosed = TRUE, !.cEndL = Bump(@),
                   !.remoteWriteEnded = TRUE, !.cEndO = Bump(@),
                   !.cleanupCalls = Bump(@)]
    ELSE [r EXCEPT !.cleanupCalls = Bump(@)]

\* server.on("connection", (conn) => { udp.createSocket('udp4'); ...; client.connect(port, host); })
UdpServerConnection(b) ==
    /\ Running /\ br[b].kind = "udpS" /\ br[b].st = "none"
    /\ Set(b, Mark([br[b] EXCEPT !.st = "live", !.connected = TRUE], "connection", "idle"))
    /\ UNCHANGED <<proc, probeVars, mgrVars, lib, wire>>

\* client.on('error', (err) => { cleanup(); })
UdpLocalError(b) ==
    /\ Running /\ br[b].kind = "udpS" /\ br[b].st = "live"
    /\ ~br[b].localDestroyed
    /\ Set(b, Mark(UdpCleanup([br[b] EXCEPT !.fault = TRUE]), "localError", "idle"))
    /\ UNCHANGED <<proc, probeVars, mgrVars, lib, wire>>

\* conn.on('error', (err) => { cleanup(); })
UdpRemoteError(b) ==
    /\ Running /\ br[b].kind = "udpS" /\ br[b].st = "live"
    /\ ~br[b].remoteDestroyed
    /\ Set(b, Mark(UdpCleanup([br[b] EXCEPT !.remoteDestroyed = TRUE, !.fault = TRUE]),
                   "remoteError", "idle"))
    /\ UNCHANGED <<proc, probeVars, mgrVars, lib, wire>>

\* conn.on('end', () => { cleanup(); })
UdpRemoteEnd(b) ==
    /\ Running /\ br[b].kind = "udpS" /\ br[b].st = "live"
    /\ ~br[b].remoteReadEnded /\ ~br[b].remoteDestroyed
    /\ Set(b, Mark(UdpCleanup([br[b] EXCEPT !.remoteReadEnded = TRUE]), "remoteEnd", "idle"))
    /\ UNCHANGED <<proc, probeVars, mgrVars, lib, wire>>

\* client.on('message', (buf) => { if (!destroyed) { try { conn.rawStream.send(buf) }
\*                                                   catch (err) { cleanup() } } })
UdpLocalMessage(b, throws) ==
    /\ Running /\ br[b].kind = "udpS" /\ br[b].st = "live"
    /\ ~br[b].localDestroyed
    /\ Pending(LocalIn(br[b]))
    /\ Set(b, IF br[b].destroyed
              THEN Mark(br[b], "localMessage", "dropOverlay")
              ELSE IF throws
                   THEN Mark(UdpCleanup([br[b] EXCEPT !.fault = TRUE]), "localMessage", "threw")
                   ELSE Mark(br[b], "localMessage", "toOverlay"))
    /\ IF ~br[b].destroyed /\ ~throws
       THEN Forward(LocalIn(br[b]), OverlayOut(br[b]))
       ELSE Discard(LocalIn(br[b]))
    /\ UNCHANGED <<proc, probeVars, mgrVars, lib>>

\* conn.rawStream.on('message', (buf) => { if (!destroyed) { try { client.send(buf) }
\*                                                           catch (err) { cleanup() } } })
\* client.send() throws on a closed socket
UdpRemoteMessage(b, throws) ==
    /\ Running /\ br[b].kind = "udpS" /\ br[b].st = "live"
    /\ ~br[b].remoteDestroyed
    /\ Pending(OverlayIn(br[b]))
    /\ Set(b, IF br[b].destroyed
              THEN Mark(br[b], "remoteMessage", "dropLocal")
              ELSE IF throws \/ br[b].localDestroyed
                   THEN Mark(UdpCleanup([br[b] EXCEPT !.fault = TRUE]), "remoteMessage", "threw")
                   ELSE Mark(br[b], "remoteMessage", "toLocal"))
    /\ IF ~br[b].destroyed /\ ~throws /\ ~br[b].localDestroyed
       THEN Forward(OverlayIn(br[b]), LocalOut(br[b]))
       ELSE Discard(OverlayIn(br[b]))
    /\ UNCHANGED <<proc, probeVars, mgrVars, lib>>

UdpServerNext(b) ==
    \/ UdpServerConnection(b)
    \/ UdpLocalError(b)
    \/ UdpRemoteError(b)
    \/ UdpRemoteEnd(b)
    \/ \E throws \in BOOLEAN : UdpLocalMessage(b, throws)
    \/ \E throws \in BOOLEAN : UdpRemoteMessage(b, throws)

----------------------------------------------------------------------------
(* UDP engine: createUdpClient (one persistent session per tunnel) *)

\* conn 'open' resolved the startup promise; udp.createSocket; server.bind(localPort)
UdpClientReady(b) ==
    /\ Running /\ br[b].kind = "udpC" /\ br[b].st = "none"
    /\ Set(b, Mark([br[b] EXCEPT !.st = "live", !.connected = TRUE], "connection", "idle"))
    /\ UNCHANGED <<proc, probeVars, mgrVars, lib, wire>>

\* A handler that takes the source port of every local datagram.
UdpClientLocalMessageLastPort(b, port, throws) ==
    /\ Running /\ br[b].kind = "udpC" /\ br[b].st = "live"
    /\ ~br[b].localDestroyed
    /\ Pending(LocalIn(br[b]))
    /\ LET r == [br[b] EXCEPT !.inport = port, !.rinfo = port] IN
       IF throws
       THEN /\ Set(b, Mark([r EXCEPT !.fault = TRUE], "localMessage", "threw"))
            /\ proc' = UncaughtException(proc)
       ELSE /\ Set(b, Mark(r, "localMessage", "toOverlay"))
            /\ UNCHANGED proc
    /\ IF throws
       THEN Discard(LocalIn(br[b]))
       ELSE Forward(LocalIn(br[b]), OverlayOut(br[b]))
    /\ UNCHANGED <<probeVars, mgrVars, lib>>

\* server.on('message', async (buf, rinfo) => { if (!inport) inport = rinfo.port;
\*                                              conn.rawStream.send(buf); })
\* no try/catch: a throwing send rejects the async handler's promise
UdpClientLocalMessage(b, port, throws) ==
    /\ Running /\ br[b].kind = "udpC" /\ br[b].st = "live"
    /\ ~br[b].localDestroyed
    /\ Pending(LocalIn(br[b]))
    /\ LET r == [br[b] EXCEPT !.inport = IF @ = NoPort THEN port ELSE @,
                              !.rinfo = port] IN
       IF throws
       THEN /\ Set(b, Mark([r EXCEPT !.fault = TRUE], "localMessage", "threw"))
            /\ proc' = UncaughtException(proc)
       ELSE /\ Set(b, Mark(r, "localMessage", "toOverlay"))
            /\ UNCHANGED proc
    /\ IF throws
       THEN Discard(LocalIn(br[b]))
       ELSE Forward(LocalIn(br[b]), OverlayOut(br[b]))
    /\ UNCHANGED <<probeVars, mgrVars, lib>>

\* conn.rawStream.on('message', (buf) => { server.send(buf, inport); })
\* no try/catch; dgram's send() throws ERR_SOCKET_BAD_PORT for an undefined port
UdpClientRemoteMessage(b, throws) ==
    /\ Running /\ br[b].kind = "udpC" /\ br[b].st = "live"
    /\ ~br[b].remoteDestroyed
    /\ Pending(OverlayIn(br[b]))
    /\ IF throws \/ br[b].inport = NoPort \/ br[b].localDestroyed
       THEN /\ Set(b, Mark([br[b] EXCEPT !.fault = TRUE], "remoteMessage", "threw"))
            /\ proc' = UncaughtException(proc)
       ELSE /\ Set(b, Mark([br[b] EXCEPT !.dest = br[b].inport], "remoteMessage", "toLocal"))
            /\ UNCHANGED proc
    /\ IF throws \/ br[b].inport = NoPort \/ br[b].localDestroyed
       THEN Discard(OverlayIn(br[b]))
       ELSE Forward(OverlayIn(br[b]), LocalOut(br[b]))
    /\ UNCHANGED <<probeVars, mgrVars, lib>>

\* conn.on('error', (err) => { clearTimeout(timeout); reject(err); }): the only
\* error listener of the session; after 'open' the promise is settled
UdpClientRemoteError(b) ==
    /\ Running /\ br[b].kind = "udpC" /\ br[b].st = "live"
    /\ ~br[b].remoteDestroyed
    /\ Set(b, Mark([br[b] EXCEPT !.remoteDestroyed = TRUE, !.fault = TRUE],
                   "remoteError", "idle"))
    /\ UNCHANGED <<proc, probeVars, mgrVars, lib, wire>>

\* the session ends: no 'end' listener is registered
UdpClientRemoteEnd(b) ==
    /\ Running /\ br[b].kind = "udpC" /\ br[b].st = "live"
    /\ ~br[b].remoteReadEnded /\ ~br[b].remoteDestroyed
    /\ Set(b, Mark([br[b] EXCEPT !.remoteReadEnded = TRUE], "remoteEnd", "idle"))
    /\ UNCHANGED <<proc, probeVars, mgrVars, lib, wire>>

\* 'error' on the local dgram socket: no listener is registered, so the
\* emitter throws
UdpClientLocalError(b) ==
    /\ Running /\ br[b].kind = "udpC" /\ br[b].st = "live"
    /\ ~br[b].localDestroyed
    /\ Set(b, Mark([br[b] EXCEPT !.fault = TRUE], "localError", "idle"))
    /\ proc' = UncaughtException(proc)
    /\ UNCHANGED <<probeVars, mgrVars, lib, wire>>

UdpClientNext(b) ==
    \/ UdpClientReady(b)
    \/ \E port \in Ports, throws \in BOOLEAN : UdpClientLocalMessage(b, port, throws)
    \/ \E throws \in BOOLEAN : UdpClientRemoteMessage(b, throws)
    \/ UdpClientRemoteError(b)
    \/ UdpClientRemoteEnd(b)
    \/ UdpClientLocalError(b)

----------------------------------------------------------------------------
(* TCP-over-datagram engine: createTcpUdpServer / createTcpUdpClient *)

\* createTcpUdpServer: const gracefulClose = () => {
\*   if (tcpEnded && udpEnded) return;
\*   if (!tcpEnded && socket && !socket.destroyed) { tcpEnded = true; socket.end(); }
\*   if (!udpEnded && conn && !conn.destroyed) { udpEnded = true; conn.end(); } }
gracefulCloseServer(r) ==
    LET c == [r EXCEPT !.cleanupCalls = Bump(@)]
        t == IF ~c.tcpEnded /\ ~c.localDestroyed
             THEN [c EXCEPT !.tcpEnded = TRUE, !.localWriteEnded = TRUE, !.cEndL = Bump(@)]
             ELSE c
    IN  IF r.tcpEnded /\ r.udpEnded
        THEN c
        ELSE IF ~t.udpEnded /\ ~t.remoteDestroyed
             THEN [t EXCEPT !.udpEnded = TRUE, !.remoteWriteEnded = TRUE, !.cEndO = Bump(@)]
             ELSE t

\* createTcpUdpClient: const gracefulClose = () => {
\*   if (tcpEnded && udpEnded) return;
\*   if (!tcpEnded && localSocket && !localSocket.destroyed) { tcpEnded = true; localSocket.end(); } }
gracefulCloseClient(r) ==
    LET c == [r EXCEPT !.cleanupCalls = Bump(@)]
    IN  IF r.tcpEnded /\ r.udpEnded
        THEN c
        ELSE IF ~c.tcpEnded /\ ~c.localDestroyed
             THEN [c EXCEPT !.tcpEnded = TRUE, !.localWriteEnded = TRUE, !.cEndL = Bump(@)]
             ELSE c

gracefulClose(r) == IF r.kind = "tuS" THEN gracefulCloseServer(r) ELSE gracefulCloseClient(r)

\* if (conn && !conn.destroyed) conn.end()
ConnEnd(r) == IF ~r.remoteDestroyed THEN [r EXCEPT !.remoteWriteEnded = TRUE] ELSE r
\* if (conn && !conn.destroyed) conn.destroy()
ConnDestroy(r) == IF ~r.remoteDestroyed THEN [r EXCEPT !.remoteDestroyed = TRUE] ELSE r
\* if (socket && !socket.destroyed) socket.end()
SocketEnd(r) == IF ~r.localDestroyed THEN [r EXCEPT !.localWriteEnded = TRUE] ELSE r
\* if (socket && !socket.destroyed) socket.destroy()
SocketDestroy(r) == IF ~r.localDestroyed THEN [r EXCEPT !.localDestroyed = TRUE] ELSE r

\* server.on("connection", (conn) => { net.connect({port, host, allowHalfOpen: true});
\*   socket.setTimeout(10000); ...; this.setupTcpUdpSocketHandlers(socket, conn, gracefulClose) })
TuServerConnection(b) ==
    /\ Running /\ br[b].kind = "tuS" /\ br[b].st = "none"
    /\ Set(b, Mark([br[b] EXCEPT !.st = "live"], "connection", "idle"))
    /\ UNCHANGED <<proc, probeVars, mgrVars, lib, wire>>

\* socket.on('connect', () => { socket.on('data', ...); conn.rawStream.on('message', ...) })
TuSocketConnect(b) ==
    /\ Running /\ br[b].kind = "tuS" /\ br[b].st = "live"
    /\ ~br[b].connected /\ ~br[b].localDestroyed
    /\ Set(b, Mark([br[b] EXCEPT !.connected = TRUE], "connect", "idle"))
    /\ UNCHANGED <<proc, probeVars, mgrVars, lib, wire>>

\* net.createServer({allowHalfOpen: true}, async (localSocket) => {
\*   localSocket.setTimeout(10000); ...; const conn = this.node.connect(publicKey);
\*   await new Promise((resolve, reject) => { ...; setTimeout(() => reject(...), 10000) })
TuClientConnection(b) ==
    /\ Running /\ br[b].kind = "tuC" /\ br[b].st = "none"
    /\ listening
    /\ Set(b, Mark([br[b] EXCEPT !.st = "connecting", !.timer = TRUE,
                                 !.connects = Bump(@)],
                   "connection", "idle"))
    /\ Accept
    /\ UNCHANGED <<proc, probeVars, mgrVars, lib>>

\* conn.on('open', resolve): the data handlers and setupTcpUdpClientHandlers are
\* registered only now
TuClientOpen(b) ==
    /\ Running /\ br[b].kind = "tuC" /\ br[b].st = "connecting"
    /\ ~br[b].remoteDestroyed
    /\ Set(b, Mark([br[b] EXCEPT !.st = "live", !.connected = TRUE], "open", "idle"))
    /\ UNCHANGED <<proc, probeVars, mgrVars, lib, wire>>

\* A connect failure that opens another overlay session and waits again.
TuClientConnectErrorRetry(b) ==
    /\ Running /\ br[b].kind = "tuC" /\ br[b].st = "connecting"
    /\ ~br[b].remoteDestroyed
    /\ Set(b, Mark([br[b] EXCEPT !.connects = Bump(@), !.fault = TRUE],
                   "remoteError", "idle"))
    /\ UNCHANGED <<proc, probeVars, mgrVars, lib, wire>>

\* conn.on('error', reject) -> catch (err) { tcpEnded = true; localSocket.destroy(); }
TuClientConnectError(b) ==
    /\ Running /\ br[b].kind = "tuC" /\ br[b].st = "connecting"
    /\ ~br[b].remoteDestroyed
    /\ Set(b, Mark([br[b] EXCEPT !.st = "failed", !.remoteDestroyed = TRUE, !.fault = TRUE,
                                 !.tcpEnded = TRUE, !.localDestroyed = TRUE],
                   "remoteError", "idle"))
    /\ UNCHANGED <<proc, probeVars, mgrVars, lib, wire>>

\* setTimeout(() => reject(new Error('Connection timeout')), 10000)
\*   -> catch (err) { tcpEnded = true; localSocket.destroy(); }
\* the timer is never cleared: after 'open' it fires and reject() does nothing
TuClientConnectTimeout(b) ==
    /\ Running /\ br[b].kind = "tuC" /\ br[b].st \in {"connecting", "live"}
    /\ br[b].timer
    /\ Set(b, IF br[b].st = "connecting"
              THEN Mark([br[b] EXCEPT !.st = "failed", !.timer = FALSE, !.fault = TRUE,
                                      !.tcpEnded = TRUE, !.localDestroyed = TRUE],
                        "connectTimeout", "idle")
              ELSE Mark([br[b] EXCEPT !.timer = FALSE], "lateTimer", "idle"))
    /\ UNCHANGED <<proc, probeVars, mgrVars, lib, wire>>

\* 'error' on localSocket while the overlay connect is awaited: the error
\* listener is not registered yet, so the emitter throws
TuClientEarlyLocalError(b) ==
    /\ Running /\ br[b].kind = "tuC" /\ br[b].st = "connecting"
    /\ ~br[b].localDestroyed
    /\ Set(b, Mark([br[b] EXCEPT !.localDestroyed = TRUE, !.fault = TRUE],
                   "localError", "idle"))
    /\ proc' = UncaughtException(proc)
    /\ UNCHANGED <<probeVars, mgrVars, lib, wire>>

\* socket.on('data', (data) => { try { if (conn && !conn.destroyed && conn.rawStream)
\*     conn.rawStream.send(data) } catch (err) { gracefulClose() } })
TuSend(r, throws) ==
    IF ~r.remoteDestroyed
    THEN IF throws
         THEN Mark(gracefulClose([r EXCEPT !.fault = TRUE]), "localData", "threw")
         ELSE Mark(r, "localData", "toOverlay")
    ELSE Mark(r, "localData", "dropOverlay")

TuLocalData(b, throws) ==
    /\ Running /\ br[b].kind \in TuKinds /\ br[b].st = "live"
    /\ br[b].connected /\ ~br[b].localReadEnded /\ ~br[b].localDestroyed
    /\ Pending(LocalIn(br[b]))
    /\ Set(b, TuSend(br[b], throws))
    /\ IF ~br[b].remoteDestroyed /\ ~throws
       THEN Forward(LocalIn(br[b]), OverlayOut(br[b]))
       ELSE Discard(LocalIn(br[b]))
    /\ UNCHANGED <<proc, probeVars, mgrVars, lib>>

\* conn.rawStream.on('message', (data) => { try { if (socket && !socket.destroyed &&
\*     socket.writable) socket.write(data) } catch (err) { ... } })
\* catch: the server calls gracefulClose(); the client calls conn.end()
TuDeliver(r, throws) ==
    IF LocalWritable(r)
    THEN IF throws
         THEN Mark(IF r.kind = "tuS"
                   THEN gracefulClose([r EXCEPT !.fault = TRUE])
                   ELSE ConnEnd([r EXCEPT !.fault = TRUE]),
                   "remoteMessage", "threw")
         ELSE Mark(r, "remoteMessage", "toLocal")
    ELSE Mark(r, "remoteMessage", "dropLocal")

TuRemoteMessage(b, throws) ==
    /\ Running /\ br[b].kind \in TuKinds /\ br[b].st = "live"
    /\ br[b].connected /\ ~br[b].remoteDestroyed
    /\ Pending(OverlayIn(br[b]))
    /\ Set(b, TuDeliver(br[b], throws))
    /\ IF LocalWritable(br[b]) /\ ~throws
       THEN Forward(OverlayIn(br[b]), LocalOut(br[b]))
       ELSE Discard(OverlayIn(br[b]))
    /\ UNCHANGED <<proc, probeVars, mgrVars, lib>>

\* a datagram of the session reaches the server before 'connect' of the local
\* socket: conn.rawStream.on('message', ...) is registered inside the
\* 'connect' handler, so the event has no listener yet and the datagram is gone
TuEarlyMessage(b) ==
    /\ Running /\ br[b].kind = "tuS" /\ br[b].st = "live"
    /\ ~br[b].connected /\ ~br[b].remoteDestroyed
    /\ Pending(OverlayIn(br[b]))
    /\ Set(b, Mark(br[b], "earlyMessage", "dropLocal"))
    /\ Discard(OverlayIn(br[b]))
    /\ UNCHANGED <<proc, probeVars, mgrVars, lib>>

\* socket.on('close', () => { tcpEnded = true; if (conn && !conn.destroyed) conn.end(); })
TuLocalClose(b) ==
    /\ Running /\ br[b].kind \in TuKinds /\ br[b].st = "live"
    /\ ~br[b].localClosed
    /\ br[b].localDestroyed \/ (br[b].localReadEnded /\ br[b].localWriteEnded)
    /\ Set(b, Mark(ConnEnd([br[b] EXCEPT !.localClosed = TRUE, !.localDestroyed = TRUE,
                                         !.hTcpEnded = TRUE]),
                   "localClose", "idle"))
    /\ UNCHANGED <<proc, probeVars, mgrVars, lib, wire>>

\* socket.on('end', () => { tcpEnded = true; if (conn && !conn.destroyed) conn.end(); })
TuLocalEnd(b) ==
    /\ Running /\ br[b].kind \in TuKinds /\ br[b].st = "live"
    /\ br[b].connected /\ ~br[b].localReadEnded /\ ~br[b].localDestroyed
    /\ Drained(LocalIn(br[b]))
    /\ Set(b, Mark(ConnEnd([br[b] EXCEPT !.localReadEnded = TRUE, !.hTcpEnded = TRUE]),
                   "localEnd", "idle"))
    /\ UNCHANGED <<proc, probeVars, mgrVars, lib, wire>>

\* socket.on('timeout', () => { gracefulClose(); })   (setTimeout(10000))
TuLocalTimeout(b) ==
    /\ Running /\ br[b].kind \in TuKinds /\ br[b].st = "live"
    /\ ~br[b].localDestroyed
    /\ Set(b, Mark(gracefulClose([br[b] EXCEPT !.fault = TRUE]), "timeout", "idle"))
    /\ UNCHANGED <<proc, probeVars, mgrVars, lib, wire>>

\* socket.on('error', (err) => { tcpEnded = true; if (conn && !conn.destroyed) conn.destroy(); })
TuLocalError(b) ==
    /\ Running /\ br[b].kind \in TuKinds /\ br[b].st = "live"
    /\ ~br[b].localDestroyed
    /\ Set(b, Mark(ConnDestroy([br[b] EXCEPT !.localDestroyed = TRUE, !.fault = TRUE,
                                             !.hTcpEnded = TRUE]),
                   "localError", "idle"))
    /\ UNCHANGED <<proc, probeVars, mgrVars, lib, wire>>

\* conn.on('close', () => { udpEnded = true; if (socket && !socket.destroyed) {
\*     if (socket.readyState === 'open') socket.end(); else socket.destroy(); } })
TuRemoteClose(b) ==
    /\ Running /\ br[b].kind \in TuKinds /\ br[b].st = "live"
    /\ ~br[b].remoteClosed
    /\ br[b].remoteDestroyed \/ (br[b].remoteReadEnded /\ br[b].remoteWriteEnded)
    /\ LET r == [br[b] EXCEPT !.remoteClosed = TRUE, !.remoteDestroyed = TRUE,
                              !.hUdpEnded = TRUE]
       IN  Set(b, Mark(IF ReadyStateOpen(r) THEN SocketEnd(r) ELSE SocketDestroy(r),
                       "remoteClose", "idle"))
    /\ UNCHANGED <<proc, probeVars, mgrVars, lib, wire>>

\* conn.on('end', () => { udpEnded = true; if (socket && !socket.destroyed) socket.end(); })
TuRemoteEnd(b) ==
    /\ Running /\ br[b].kind \in TuKinds /\ br[b].st = "live"
    /\ ~br[b].remoteReadEnded /\ ~br[b].remoteDestroyed
    /\ Set(b, Mark(SocketEnd([br[b] EXCEPT !.remoteReadEnded = TRUE, !.hUdpEnded = TRUE]),
                   "remoteEnd", "idle"))
    /\ UNCHANGED <<proc, probeVars, mgrVars, lib, wire>>

\* conn.on('error', (err) => { udpEnded = true; if (socket && !socket.destroyed) socket.destroy(); })
TuRemoteError(b) ==
    /\ Running /\ br[b].kind \in TuKinds /\ br[b].st = "live"
    /\ ~br[b].remoteDestroyed
    /\ Set(b, Mark(SocketDestroy([br[b] EXCEPT !.remoteDestroyed = TRUE, !.fault = TRUE,
                                               !.hUdpEnded = TRUE]),
                   "remoteError", "idle"))
    /\ UNCHANGED <<proc, probeVars, mgrVars, lib, wire>>

TuNext(b) ==
    \/ TuServerConnection(b)
    \/ TuSocketConnect(b)
    \/ TuClientConnection(b)
    \/ TuClientOpen(b)
    \/ TuClientConnectError(b)
    \/ TuClientConnectTimeout(b)
    \/ TuClientEarlyLocalError(b)
    \/ \E throws \in BOOLEAN : TuLocalData(b, throws)
    \/ \E throws \in BOOLEAN : TuRemoteMessage(b, throws)
    \/ TuEarlyMessage(b)
    \/ TuLocalClose(b)
    \/ TuLocalEnd(b)
    \/ TuLocalTimeout(b)
    \/ TuLocalError(b)
    \/ TuRemoteClose(b)
    \/ TuRemoteEnd(b)
    \/ TuRemoteError(b)

----------------------------------------------------------------------------
(* createTcpClient: the readiness probe that precedes server.listen()      *)

\* A catch block that keeps the first error instead of the last.
ProbeCatchKeepsFirst(err) ==
    LET left == attempts - 1 IN
    /\ lastError' = IF lastError = NoError THEN err ELSE lastError
    /\ attempts' = left
    /\ hist' = [hist EXCEPT !.failAt = clock, !.errs = Append(@, err),
                            !.live = IF testSocket' = "destroyed" THEN @ - 1 ELSE @]
    /\ IF left > 0
       THEN /\ pc' = "delay"
            /\ timer' = clock + RetryDelayMs
            /\ thrown' = thrown
       ELSE /\ pc' = "failed"
            /\ timer' = NoTimer
            /\ thrown' = lastError'
    /\ UNCHANGED <<clock, listening>>

\* catch (err) { lastError = err; attempts--;
\*               if (attempts > 0) await new Promise(resolve => setTimeout(resolve, 1000)); }
\* ... if (attempts === 0) throw lastError;
ProbeCatch(err) ==
    LET left == attempts - 1 IN
    /\ lastError' = err
    /\ attempts' = left
    /\ hist' = [hist EXCEPT !.failAt = clock, !.errs = Append(@, err),
                            !.live = IF testSocket' = "destroyed" THEN @ - 1 ELSE @]
    /\ IF left > 0
       THEN /\ pc' = "delay"
            /\ timer' = clock + RetryDelayMs
            /\ thrown' = thrown
       ELSE /\ pc' = "failed"
            /\ timer' = NoTimer
            /\ thrown' = err
    /\ UNCHANGED <<clock, listening>>

\* A probe whose per-attempt timer is twice as long.
ProbeConnectLongTimer ==
    /\ Running
    /\ pc = "start" \/ (pc = "delay" /\ clock = timer)
    /\ attempts > 0
    /\ pc' = "await"
    /\ testSocket' = "connecting"
    /\ timer' = clock + 2 * ProbeTimeoutMs
    /\ hist' = [hist EXCEPT !.made = @ + 1, !.startAt = clock, !.live = @ + 1]
    /\ UNCHANGED <<br, proc, attempts, lastError, clock, listening, thrown, mgrVars, lib, wire>>

\* while (attempts > 0) { try { const testSocket = this.node.connect(publicKey, ...);
\*   await new Promise((resolve, reject) => { const timeout = setTimeout(..., 15000); ... })
\* entered when createTcpClient is called and when the retry delay has elapsed
ProbeConnect ==
    /\ Running
    /\ pc = "start" \/ (pc = "delay" /\ clock = timer)
    /\ attempts > 0
    /\ pc' = "await"
    /\ testSocket' = "connecting"
    /\ timer' = clock + ProbeTimeoutMs
    /\ hist' = [hist EXCEPT !.made = @ + 1, !.startAt = clock, !.live = @ + 1]
    /\ UNCHANGED <<br, proc, attempts, lastError, clock, listening, thrown, mgrVars, lib, wire>>

\* testSocket.on('open', () => { clearTimeout(timeout); testSocket.destroy(); resolve(); })
\* ... break; if (attempts === 0) throw lastError; net.createServer(...);
\* server.listen(config.localPort, "127.0.0.1")
ProbeOpen ==
    /\ Running
    /\ pc = "await" /\ testSocket = "connecting"
    /\ testSocket' = "destroyed"
    /\ timer' = NoTimer
    /\ hist' = [hist EXCEPT !.opened = TRUE, !.live = @ - 1]
    /\ IF attempts = 0
       THEN pc' = "failed" /\ thrown' = lastError /\ UNCHANGED listening
       ELSE pc' = "ready" /\ listening' = TRUE /\ UNCHANGED thrown
    /\ UNCHANGED <<br, proc, attempts, lastError, clock, mgrVars, lib, wire>>

\* An error that leaves the probe session open.
ProbeErrorLeavesOpen(err) ==
    /\ Running
    /\ pc = "await" /\ testSocket = "connecting"
    /\ testSocket' = "connecting"
    /\ ProbeCatch(err)
    /\ UNCHANGED <<br, proc, mgrVars, lib, wire>>

\* testSocket.on('error', (err) => { clearTimeout(timeout); reject(err); })
\* the stream emits 'error' while it is being destroyed, so the handler has
\* nothing to destroy
ProbeError(err) ==
    /\ Running
    /\ pc = "await" /\ testSocket = "connecting"
    /\ testSocket' = "destroyed"
    /\ ProbeCatch(err)
    /\ UNCHANGED <<br, proc, mgrVars, lib, wire>>

\* setTimeout(() => { testSocket.destroy();
\*                    reject(new Error('Connection timeout after 15 seconds')); }, 15000)
ProbeTimeout ==
    /\ Running
    /\ pc = "await" /\ clock = timer
    /\ testSocket' = "destroyed"
    /\ ProbeCatch(TimeoutError)
    /\ UNCHANGED <<br, proc, mgrVars, lib, wire>>

\* time passes; a pending timer fires at its deadline
Tick ==
    /\ Running
    /\ pc \in {"await", "delay"} /\ clock < timer
    /\ clock' = Min(clock + TickMs, timer)
    /\ UNCHANGED <<br, proc, pc, attempts, lastError, timer, testSocket, listening, thrown, hist, mgrVars, lib, wire>>

ProbeNext ==
    \/ ProbeConnect
    \/ ProbeOpen
    \/ \E err \in Errors \ {TimeoutError} : ProbeError(err)
    \/ ProbeTimeout
    \/ Tick

----------------------------------------------------------------------------
(* DHTRelay: the overlay node of an instance, initialize() and the         *)
(* createRelay() factory                                                   *)

Instances == {"r1", "r2"}
CallIds == 1..MaxCalls

\* constructor() { this.node = null; }
NoNode == "null"
NoInstance == "none"
NoCall == [on |-> NoInstance, st |-> "idle", ready |-> FALSE]

\* no instance has a node, no call has been made; nodes counts `new DHT()`
NoLib ==
    [nodes |-> 0,
     relay |-> [r \in Instances |-> NoNode],
     calls |-> [c \in CallIds |-> NoCall]]

\* async initialize() { if (!this.node) { this.node = new DHT(); await this.node.ready(); }
\*                      return this; }
\* call c on instance r, up to its await or to its return; createRelay() is
\* `await this.initialize()` followed by the return of the engine table
initialize(l, c, r) ==
    IF l.relay[r] = NoNode
    THEN [l EXCEPT !.nodes = @ + 1,
                   !.relay[r] = "starting",
                   !.calls[c] = [on |-> r, st |-> "awaitReady", ready |-> FALSE]]
    ELSE [l EXCEPT !.calls[c] = [on |-> r, st |-> "resolved",
                                 ready |-> l.relay[r] = "ready"]]

\* const createRelay = async () => { const relay = new DHTRelay(); return await relay.createRelay(); }
\* the instance is new, so its initialize() finds no node and creates one
createRelay(l) == [l EXCEPT !.nodes = @ + 1]

\* schema.map(async (forwarder) => { ... await ModeHandler[mode](config) ... }):
\* one createRelay() per forwarder
RECURSIVE createRelays(_, _)
createRelays(l, n) == IF n = 0 THEN l ELSE createRelays(createRelay(l), n - 1)

----------------------------------------------------------------------------
(* Key derivation: ModeHandler (lib/modes.js) with keypear and bs58        *)

Protos == {"tcp", "udp", "tcpudp"}
Secrets == {"s1", "s2"}
RandomSecrets == {"r1"}
NoSecret == ""
NoHost == ""
DefaultHost == "127.0.0.1"
NoKey == <<>>

DigitChar(d) == <<"0", "1", "2", "3", "4", "5", "6", "7", "8", "9">>[d + 1]

\* String(port) of a non-negative integer: its decimal digits
RECURSIVE Decimal(_)
Decimal(n) == IF n < 10 THEN DigitChar(n) ELSE Decimal(n \div 10) \o DigitChar(n % 10)

\* A label that leaves the protocol out.
LabelOfPort(proto, port) == "port" \o Decimal(port)

\* keys.get(proto + port): the label of the sub-keypair
Label(proto, port) == proto \o Decimal(port)

\* DHT.keyPair(DHT.hash(Buffer.from(secret))).publicKey, as a byte string.
\* The hash and the key generation are deterministic; the bytes below stand for
\* their output and differ from secret to secret.
RootPublicKey(secret) ==
    CASE secret = "s1" -> <<0, 200>>
      [] secret = "s2" -> <<7, 33>>
      [] OTHER -> <<1, 0>>

Base58Alphabet ==
    << "1", "2", "3", "4", "5", "6", "7", "8", "9",
       "A", "B", "C", "D", "E", "F", "G", "H", "J", "K", "L", "M", "N",
       "P", "Q", "R", "S", "T", "U", "V", "W", "X", "Y", "Z",
       "a", "b", "c", "d", "e", "f", "g", "h", "i", "j", "k", "m", "n",
       "o", "p", "q", "r", "s", "t", "u", "v", "w", "x", "y", "z" >>

RECURSIVE BytesToNat(_)
BytesToNat(bytes) ==
    IF bytes = <<>> THEN 0
    ELSE BytesToNat(SubSeq(bytes, 1, Len(bytes) - 1)) * 256 + bytes[Len(bytes)]

RECURSIVE NatToBytes(_)
NatToBytes(n) == IF n = 0 THEN <<>> ELSE Append(NatToBytes(n \div 256), n % 256)

RECURSIVE NatToBase58(_)
NatToBase58(n) ==
    IF n = 0 THEN <<>> ELSE Append(NatToBase58(n \div 58), Base58Alphabet[(n % 58) + 1])

RECURSIVE Base58ToNat(_)
Base58ToNat(chars) ==
    IF chars = <<>> THEN 0
    ELSE Base58ToNat(SubSeq(chars, 1, Len(chars) - 1)) * 58
         + ((CHOOSE i \in 1..58 : Base58Alphabet[i] = chars[Len(chars)]) - 1)

\* the number of leading elements of s equal to z
RECURSIVE Leading(_, _)
Leading(s, z) == IF s = <<>> \/ Head(s) # z THEN 0 ELSE 1 + Leading(Tail(s), z)

\* bs58.encode: one "1" per leading zero byte, then the base-58 digits of the rest
Base58Encode(bytes) ==
    [i \in 1..Leading(bytes, 0) |-> "1"] \o NatToBase58(BytesToNat(bytes))

\* bs58.decode: one zero byte per leading "1", then the bytes of the number
Base58Decode(chars) ==
    [i \in 1..Leading(chars, "1") |-> 0] \o NatToBytes(Base58ToNat(chars))

\* the characters of a string, glued
RECURSIVE Glue(_)
Glue(chars) == IF chars = <<>> THEN "" ELSE Head(chars) \o Glue(Tail(chars))

\* array.join(',')
RECURSIVE JoinComma(_)
JoinComma(strs) ==
    IF strs = <<>> THEN ""
    ELSE IF Len(strs) = 1 THEN strs[1]
    ELSE strs[1] \o "," \o JoinComma(Tail(strs))

\* keypear: keys.get(label).publicKey is a function of the root public key and
\* of the label, and of nothing else
KeychainGet(rootPublicKey, label) == [root |-> rootPublicKey, label |-> label]

\* A server that reports the public key of its sub-keypair.
ServerPublicKeyOfSubKey(cfg) ==
    Glue(Base58Encode(RootPublicKey(cfg.secret))) \o "/" \o Label(cfg.proto, cfg.port)

\* const hash = DHT.hash(Buffer.from(secret)); const kp = DHT.keyPair(hash);
\* const publicKey = bs58.encode(kp.publicKey);
ServerPublicKey(cfg) == Glue(Base58Encode(RootPublicKey(cfg.secret)))

\* const keyPair = keys.get(proto + port)   with keys = new Keychain(kp)
ServerSubKey(cfg) == KeychainGet(RootPublicKey(cfg.secret), Label(cfg.proto, cfg.port))

\* A client that derives its label from the port it binds.
ClientSubKeyOfLocalPort(cfg) ==
    KeychainGet(Base58Decode(cfg.publicKey), Label(cfg.proto, cfg.localPort))

\* const keys = new Keychain(bs58.decode(publicKey)); const key = keys.get(proto + port).publicKey;
ClientSubKey(cfg) == KeychainGet(Base58Decode(cfg.publicKey), Label(cfg.proto, cfg.port))

\* console.log(`npx hyper-nat client -p ${port} --protocol ${proto} -k ${publicKey}`)
ServerCommand(cfg) ==
    <<"npx", "hyper-nat", "client", "-p", Decimal(cfg.port),
      "--protocol", cfg.proto, "-k", ServerPublicKey(cfg)>>

----------------------------------------------------------------------------
(* ConfigManager (lib/config.js): argument parsing, runFromConfig *)

NaN == 0 - 1
Digits == {"0", "1", "2", "3", "4", "5", "6", "7", "8", "9"}
DigitValue(c) == CHOOSE d \in 0..9 : DigitChar(d) = c

\* str.split(sep) on a sequence of characters
RECURSIVE Split(_, _)
Split(s, sep) ==
    IF \A i \in 1..Len(s) : s[i] # sep THEN <<s>>
    ELSE LET k == CHOOSE i \in 1..Len(s) : s[i] = sep /\ \A j \in 1..(i - 1) : s[j] # sep
         IN <<SubSeq(s, 1, k - 1)>> \o Split(SubSeq(s, k + 1, Len(s)), sep)

\* str.trim()
RECURSIVE Trim(_)
Trim(s) ==
    IF s = <<>> THEN s
    ELSE IF Head(s) = " " THEN Trim(Tail(s))
    ELSE IF s[Len(s)] = " " THEN Trim(SubSeq(s, 1, Len(s) - 1))
    ELSE s

RECURSIVE DigitPrefix(_)
DigitPrefix(s) ==
    IF s = <<>> \/ Head(s) \notin Digits THEN <<>> ELSE <<Head(s)>> \o DigitPrefix(Tail(s))

RECURSIVE DigitsToNat(_)
DigitsToNat(ds) ==
    IF ds = <<>> THEN 0
    ELSE DigitsToNat(SubSeq(ds, 1, Len(ds) - 1)) * 10 + DigitValue(ds[Len(ds)])

\* parseInt(str, 10) of an unsigned string: the value of the longest prefix of
\* decimal digits, NaN when there is none
ParseInt(s) ==
    LET ds == DigitPrefix(Trim(s)) IN IF ds = <<>> THEN NaN ELSE DigitsToNat(ds)

\* portArg.split(',').map(p => parseInt(p.trim(), 10)).filter(p => !isNaN(p))
\* (the options are declared with type 'string')
parsePortList(portArg) ==
    LET parts == Split(portArg, ",") IN
    SelectSeq([i \in 1..Len(parts) |-> ParseInt(Trim(parts[i]))], LAMBDA p : p # NaN)

\* str.replace(/\s+/g, ','): each run of white space becomes one comma.
\* A protocol argument is a sequence of lexemes: words, "," and " ".
RECURSIVE ReplaceWhitespace(_)
ReplaceWhitespace(s) ==
    IF s = <<>> THEN <<>>
    ELSE IF Head(s) = " "
         THEN <<",">> \o ReplaceWhitespace(SubSeq(s, 1 + Leading(s, " "), Len(s)))
         ELSE <<Head(s)>> \o ReplaceWhitespace(Tail(s))

\* the values the protocol argument can have: a string (its characters), an
\* array (its elements; yargs builds one when the option is repeated) or
\* undefined
JsString(chars) == [type |-> "string", value |-> chars]
JsArray(items) == [type |-> "array", value |-> items]
JsUndefined == [type |-> "undefined", value |-> <<>>]

\* if (typeof protocolArg === 'string') {
\*   protocols = protocolArg.replace(/\s+/g, ',').split(',').map(p => p.trim()).filter(p => p);
\*   if (protocols.length === 0) protocols = ['udp'];
\* } else if (Array.isArray(protocolArg)) { protocols = protocolArg; }
\* else { protocols = ['udp']; }
\* if (protocols.length === 1 && portCount > 1) protocols = Array(portCount).fill(protocols[0]);
\* protocols.map(p => ['tcp', 'udp', 'tcpudp'].includes(p) ? p : 'udp')
parseProtocolList(protocolArg, portCount) ==
    LET parts == Split(ReplaceWhitespace(protocolArg.value), ",")
        words == SelectSeq([i \in 1..Len(parts) |-> Glue(Trim(parts[i]))], LAMBDA p : p # "")
        given == IF protocolArg.type = "string"
                 THEN IF words = <<>> THEN <<"udp">> ELSE words
                 ELSE IF protocolArg.type = "array"
                      THEN protocolArg.value
                      ELSE <<"udp">>
        filled == IF Len(given) = 1 /\ portCount > 1
                  THEN [i \in 1..portCount |-> given[1]]
                  ELSE given
    IN [i \in 1..Len(filled) |-> IF filled[i] \in Protos THEN filled[i] ELSE "udp"]

\* a forwarder configuration; a field the configuration does not hold is falsy
ServerConfig(proto, port, host, secret, showCommands) ==
    [mode |-> "server", proto |-> proto, port |-> port, host |-> host, localPort |-> NoPort,
     secret |-> secret, publicKey |-> NoKey, showCommands |-> showCommands]

ClientConfig(proto, port, localPort, publicKey) ==
    [mode |-> "client", proto |-> proto, port |-> port, host |-> NoHost, localPort |-> localPort,
     secret |-> NoSecret, publicKey |-> publicKey, showCommands |-> FALSE]

Servers(schema) == SelectSeq(schema, LAMBDA c : c.mode = "server")

\* console.log(`npx hyper-nat client -l ${ports.join(',')} -r ${ports.join(',')}
\*              --protocol ${protocols.join(',')} -k ${publicKey}`)
\* with the key of serverConfigs[0].secret
showConsolidatedCommand(serverConfigs) ==
    LET ports == [i \in 1..Len(serverConfigs) |-> Decimal(serverConfigs[i].port)]
        protocols == [i \in 1..Len(serverConfigs) |-> serverConfigs[i].proto]
    IN <<"npx", "hyper-nat", "client", "-l", JoinComma(ports), "-r", JoinComma(ports),
         "--protocol", JoinComma(protocols), "-k", ServerPublicKey(serverConfigs[1])>>

\* const configWithCommandFlag = showConsolidatedCommand && forwarder.mode === 'server'
\*     ? {...forwarder, showCommands: false} : forwarder;
\* if (forwarder.mode === 'client')
\*     configWithCommandFlag.localPort = configWithCommandFlag.localPort || forwarder.port;
configWithCommandFlag(forwarder, flag) ==
    IF forwarder.mode = "server"
    THEN IF flag THEN [forwarder EXCEPT !.showCommands = FALSE] ELSE forwarder
    ELSE [forwarder EXCEPT !.localPort = IF @ = NoPort THEN forwarder.port ELSE @]

\* the name of the engine in its console lines, letter by letter
EngineName(proto) ==
    CASE proto = "tcp" -> <<"t", "c", "p">>
      [] proto = "udp" -> <<"u", "d", "p">>
      [] proto = "tcpudp" -> <<"t", "c", "p", "-", "o", "v", "e", "r", "-", "u", "d", "p">>

\* console.log('listening for remote connections for tcp', port)
\* console.log('listening for remote connections for udp', port)
\* console.log('listening for remote connections for tcp-over-udp', port)
ListeningLine(cfg) ==
    <<"listening for remote connections for">> \o EngineName(cfg.proto) \o <<Decimal(cfg.port)>>

\* The state of one forwarder: its ModeHandler promise, its overlay node and
\* the position of its engine's start-up.
\*   st: "node"   awaiting createRelay() (new DHT(), node.ready())
\*       "listen" server: server.listen(keyPair) pending
\*       "probe"  client: awaiting 'open' on the probe session
\*       "delay"  client: between two probe attempts
\*       "up"     the listener is bound
\*       "failed" the start-up failed
\* ModeHandler.server / ModeHandler.client up to `await createRelay()`
ModeHandlerStart(cfg) ==
    [cfg |-> cfg, st |-> "node", promise |-> "pending", node |-> TRUE,
     key |-> IF cfg.mode = "client" THEN ClientSubKey(cfg) ELSE KeychainGet(NoKey, ""),
     result |-> "", attempts |-> 0, timer |-> FALSE, listening |-> FALSE, probes |-> 0,
     log |-> <<>>]

\* the lines ModeHandler.server writes when settings.showCommands is set
RECURSIVE ServerLines(_)
ServerLines(cfgs) ==
    IF cfgs = <<>> THEN <<>>
    ELSE (IF Head(cfgs).mode = "server" /\ Head(cfgs).showCommands
          THEN <<ServerCommand(Head(cfgs))>> ELSE <<>>) \o ServerLines(Tail(cfgs))

NoRun == [state |-> "none", consolidated |-> FALSE, publicKeys |-> <<>>]
NoArgv == [command |-> "dispatched"]

\* runFromConfig(schema, showConsolidatedCommand) up to `await Promise.all(promises)`:
\* the consolidated command, then every forwarder's ModeHandler call, each up
\* to its first await
runFromConfig(schema, flag) ==
    LET cfgs == [i \in 1..Len(schema) |-> configWithCommandFlag(schema[i], flag)] IN
    /\ out' = out \o (IF flag /\ Servers(schema) # <<>>
                      THEN <<showConsolidatedCommand(Servers(schema))>> ELSE <<>>)
                  \o ServerLines(cfgs)
    /\ fw' = [i \in 1..Len(schema) |-> ModeHandlerStart(cfgs[i])]
    /\ run' = [state |-> "pending", consolidated |-> flag, publicKeys |-> <<>>]
    /\ cli' = "awaiting"
    /\ argv' = NoArgv
    /\ lib' = createRelays(lib, Len(schema))
    /\ UNCHANGED proc

\* console.error('Error: ...'); process.exit(1);
ConfigError ==
    /\ cli' = "configError"
    /\ proc' = "exited"
    /\ argv' = NoArgv
    /\ UNCHANGED <<run, fw, out, lib>>

----------------------------------------------------------------------------
(* CLI (lib/cli.js) *)

\* A server command that only rejects an empty port list.
ServerArgsInvalidPortsOnly(ports, protocols) == Len(ports) = 0

\* if (ports.length === 0) ... if (protocols.length !== ports.length) ...
ServerArgsInvalid(ports, protocols) ==
    Len(ports) = 0 \/ Len(protocols) # Len(ports)

\* if (localPorts.length === 0 || remotePorts.length === 0) ...
\* if (localPorts.length !== remotePorts.length) ...
\* if (protocols.length !== localPorts.length) ...
ClientArgsInvalid(localPorts, remotePorts, protocols) ==
    \/ Len(localPorts) = 0 \/ Len(remotePorts) = 0
    \/ Len(localPorts) # Len(remotePorts)
    \/ Len(protocols) # Len(localPorts)

\* protocols[index]: undefined beyond the end of the array
At(arr, index) == IF index \in 1..Len(arr) THEN arr[index] ELSE "undefined"

\* CLI.main -> CLI.handleServerCommand(argv)
handleServerCommand ==
    /\ Running /\ cli = "main" /\ argv.command = "server"
    /\ LET ports == parsePortList(argv.port)
           protocols == parseProtocolList(JsString(argv.protocol), Len(ports))
       IN IF ServerArgsInvalid(ports, protocols)
          THEN ConfigError
          ELSE \E secret \in (IF argv.secret = NoSecret THEN RandomSecrets ELSE {argv.secret}) :
                  runFromConfig([i \in 1..Len(ports) |->
                                    ServerConfig(At(protocols, i), ports[i], argv.host, secret, TRUE)],
                                TRUE)
    /\ UNCHANGED <<br, probeVars, wire>>

\* CLI.main -> CLI.handleClientCommand(argv)
handleClientCommand ==
    /\ Running /\ cli = "main" /\ argv.command = "client"
    /\ LET localPorts == parsePortList(argv.localPort)
           remotePorts == parsePortList(argv.remotePort)
           protocols == parseProtocolList(JsString(argv.protocol), Len(localPorts))
       IN IF ClientArgsInvalid(localPorts, remotePorts, protocols)
          THEN ConfigError
          ELSE runFromConfig([i \in 1..Len(localPorts) |->
                                 ClientConfig(At(protocols, i), remotePorts[i],
                                              localPorts[i], argv.publicKey)],
                             FALSE)
    /\ UNCHANGED <<br, probeVars, wire>>

\* const serverConfigs = config.schema.filter(c => c.mode === 'server');
\* serverConfigs.length > 1 && serverConfigs.every(c => c.secret === serverConfigs[0].secret)
hasMultipleServersWithSameSecret(schema) ==
    LET serverConfigs == Servers(schema) IN
    /\ Len(serverConfigs) > 1
    /\ \A i \in 1..Len(serverConfigs) : serverConfigs[i].secret = serverConfigs[1].secret

\* ConfigManager.createDefaultConfigurations(secret)
createDefaultConfigurations(secret) ==
    <<ServerConfig("udp", 3000, "127.0.0.1", secret, TRUE),
      ServerConfig("tcp", 3000, "127.0.0.1", secret, TRUE)>>

\* CLI.main -> CLI.handleDefaultMode(argv)
handleDefaultMode ==
    /\ Running /\ cli = "main" /\ argv.command = "none"
    /\ IF argv.config # <<>>
       THEN runFromConfig(argv.config, hasMultipleServersWithSameSecret(argv.config))
       ELSE \E secret \in RandomSecrets :
               runFromConfig(createDefaultConfigurations(secret), TRUE)
    /\ UNCHANGED <<br, probeVars, wire>>

----------------------------------------------------------------------------
(* Start-up of the forwarders: the continuations of ModeHandler and of the *)
(* engines' createXxxServer / createXxxClient                              *)

\* process.on('unhandledRejection', (reason, promise) => { process.exit(1); })
UnhandledRejection(p) == "exited"

\* A callback that records an entry for every forwarder, clients included.
ResolveEveryMode(i, f) ==
    LET fws == [fw EXCEPT ![i] = [f EXCEPT !.promise = "resolved"]]
        keys == Append(run.publicKeys,
                       [proto |-> f.cfg.proto, port |-> f.cfg.port, publicKey |-> f.result])
        all == \A j \in 1..Len(fws) : fws[j].promise = "resolved"
    IN /\ fw' = fws
       /\ run' = [run EXCEPT !.publicKeys = keys,
                             !.state = IF all THEN "resolved" ELSE @]
       /\ cli' = IF all THEN "steady" ELSE cli
       /\ UNCHANGED <<proc, argv, out>>

\* a ModeHandler promise resolves: the runFromConfig callback records the key
\* of a server; Promise.all resolves with the last one, runFromConfig returns,
\* the command handler returns and CLI.main ends
Resolve(i, f) ==
    LET fws == [fw EXCEPT ![i] = [f EXCEPT !.promise = "resolved"]]
        keys == IF f.cfg.mode = "server" /\ f.result # ""
                THEN Append(run.publicKeys,
                            [proto |-> f.cfg.proto, port |-> f.cfg.port, publicKey |-> f.result])
                ELSE run.publicKeys
        all == \A j \in 1..Len(fws) : fws[j].promise = "resolved"
    IN /\ fw' = fws
       /\ run' = [run EXCEPT !.publicKeys = keys,
                             !.state = IF all THEN "resolved" ELSE @]
       /\ cli' = IF all THEN "steady" ELSE cli
       /\ UNCHANGED <<proc, argv, out>>

\* a ModeHandler promise rejects: Promise.all rejects, runFromConfig rejects,
\* the command handler rejects and CLI.main's catch calls process.exit(1)
Reject(i, f) ==
    /\ fw' = [fw EXCEPT ![i] = [f EXCEPT !.promise = "rejected", !.st = "failed"]]
    /\ run' = [run EXCEPT !.state = "rejected"]
    /\ cli' = "startupError"
    /\ proc' = "exited"
    /\ UNCHANGED <<argv, out>>

\* a promise nobody awaits rejects, or an 'error' event has no listener:
\* the handlers of index.js call process.exit(1)
Crash(i, f) ==
    /\ fw' = [fw EXCEPT ![i] = [f EXCEPT !.st = "failed"]]
    /\ cli' = "crashed"
    /\ proc' = UnhandledRejection(proc)
    /\ UNCHANGED <<argv, run, out>>

\* the attempts of the probe loop of an engine
ClientAttempts(proto) == IF proto = "tcp" THEN ProbeAttempts ELSE 1

\* whether the engine arms a timer on its probe session
ClientTimer(proto) == proto # "tcpudp"

\* whether the engine listens for 'error' on its probe session
ClientErrorListener(proto) == proto # "tcpudp"

\* ModeHandler.server after `await createRelay()`:
\*   const keys = new Keychain(kp); const keyPair = keys.get(proto + port);
\*   (rel)[proto].server(keyPair, port, host);    (not awaited)
\*   return publicKey;
\* createXxxServer: this.node.createServer(); server.on("connection", ...);
\*   console.log('listening for remote connections for ...', port); server.listen(keyPair)
ServerNodeReady(i) ==
    /\ Running /\ i \in 1..Len(fw)
    /\ fw[i].st = "node" /\ fw[i].cfg.mode = "server"
    /\ IF fw[i].cfg.proto \in Protos
       THEN Resolve(i, [fw[i] EXCEPT !.st = "listen", !.result = ServerPublicKey(fw[i].cfg),
                                     !.key = ServerSubKey(fw[i].cfg),
                                     !.log = <<ListeningLine(fw[i].cfg)>>])
       ELSE Reject(i, fw[i])
    /\ UNCHANGED <<br, probeVars, lib, wire>>

\* ModeHandler.client after `await createRelay()`:
\*   return (rel)[proto].client(key, port, { localPort });
\* createXxxClient: this.node.connect(publicKey) and the wait for 'open'
ClientNodeReady(i) ==
    /\ Running /\ i \in 1..Len(fw)
    /\ fw[i].st = "node" /\ fw[i].cfg.mode = "client"
    /\ IF fw[i].cfg.proto \in Protos
       THEN /\ fw' = [fw EXCEPT ![i] = [@ EXCEPT !.st = "probe",
                                                 !.attempts = ClientAttempts(fw[i].cfg.proto),
                                                 !.timer = ClientTimer(fw[i].cfg.proto),
                                                 !.probes = 1]]
            /\ UNCHANGED <<proc, argv, cli, run, out>>
       ELSE Reject(i, fw[i])
    /\ UNCHANGED <<br, probeVars, lib, wire>>

\* await this.node.ready() rejects: createRelay() rejects inside ModeHandler
NodeFailed(i) ==
    /\ Running /\ i \in 1..Len(fw)
    /\ fw[i].st = "node"
    /\ Reject(i, [fw[i] EXCEPT !.node = FALSE])
    /\ UNCHANGED <<br, probeVars, lib, wire>>

\* server.listen(keyPair) resolves
ServerListening(i) ==
    /\ Running /\ i \in 1..Len(fw)
    /\ fw[i].st = "listen"
    /\ fw' = [fw EXCEPT ![i] = [@ EXCEPT !.st = "up", !.listening = TRUE]]
    /\ UNCHANGED <<proc, argv, cli, run, out, br, probeVars, lib, wire>>

\* server.listen(keyPair) rejects: createTcpServer drops the promise of listen,
\* ModeHandler.server drops the promise of createUdpServer / createTcpUdpServer
ServerListenFailed(i) ==
    /\ Running /\ i \in 1..Len(fw)
    /\ fw[i].st = "listen"
    /\ Crash(i, fw[i])
    /\ UNCHANGED <<br, probeVars, lib, wire>>

\* 'open' on the probe session: the local listener is created and bound and
\* createXxxClient returns
ClientProbeOpen(i) ==
    /\ Running /\ i \in 1..Len(fw)
    /\ fw[i].st = "probe"
    /\ Resolve(i, [fw[i] EXCEPT !.st = "up", !.timer = FALSE, !.listening = TRUE])
    /\ UNCHANGED <<br, probeVars, lib, wire>>

\* the probe attempt failed with an error the engine catches:
\* createTcpClient: lastError = err; attempts--; retry after 1000 ms while attempts > 0
\* createUdpClient: the promise of the single attempt rejects
ClientProbeCatch(i) ==
    LET left == fw[i].attempts - 1 IN
    IF left > 0
    THEN /\ fw' = [fw EXCEPT ![i] = [@ EXCEPT !.st = "delay", !.attempts = left,
                                              !.timer = FALSE]]
         /\ UNCHANGED <<proc, argv, cli, run, out>>
    ELSE Reject(i, [fw[i] EXCEPT !.attempts = left, !.timer = FALSE])

\* 'error' on the probe session
ClientProbeError(i) ==
    /\ Running /\ i \in 1..Len(fw)
    /\ fw[i].st = "probe"
    /\ IF ClientErrorListener(fw[i].cfg.proto)
       THEN ClientProbeCatch(i)
       ELSE Crash(i, fw[i])
    /\ UNCHANGED <<br, probeVars, lib, wire>>

\* the timer of the probe attempt fires
ClientProbeTimeout(i) ==
    /\ Running /\ i \in 1..Len(fw)
    /\ fw[i].st = "probe" /\ fw[i].timer
    /\ ClientProbeCatch(i)
    /\ UNCHANGED <<br, probeVars, lib, wire>>

\* the retry delay of createTcpClient has elapsed: the next attempt connects
ClientProbeRetry(i) ==
    /\ Running /\ i \in 1..Len(fw)
    /\ fw[i].st = "delay"
    /\ fw' = [fw EXCEPT ![i] = [@ EXCEPT !.st = "probe", !.timer = ClientTimer(fw[i].cfg.proto),
                                         !.probes = @ + 1]]
    /\ UNCHANGED <<proc, argv, cli, run, out, br, probeVars, lib, wire>>

ForwarderIds == 1..MaxForwarders

StartNext(i) ==
    \/ ServerNodeReady(i)
    \/ ClientNodeReady(i)
    \/ NodeFailed(i)
    \/ ServerListening(i)
    \/ ServerListenFailed(i)
    \/ ClientProbeOpen(i)
    \/ ClientProbeError(i)
    \/ ClientProbeTimeout(i)
    \/ ClientProbeRetry(i)

RunNext ==
    \/ handleServerCommand
    \/ handleClientCommand
    \/ handleDefaultMode
    \/ \E i \in ForwarderIds : StartNext(i)

----------------------------------------------------------------------------
(* Specifications *)

BridgeNext(b) == TcpNext(b) \/ UdpServerNext(b) \/ UdpClientNext(b) \/ TuNext(b)

\* the state of the manager once start-up is over
ManagerSteady ==
    /\ argv = NoArgv
    /\ cli = "steady"
    /\ run = NoRun
    /\ fw = <<>>
    /\ out = <<>>

\* the state of the process once its tunnel has started: the probe opened at
\* the first attempt and the local listener is bound
ProbeDone ==
    /\ pc = "ready"
    /\ attempts = ProbeAttempts
    /\ lastError = NoError
    /\ clock = 0
    /\ timer = NoTimer
    /\ testSocket = "destroyed"
    /\ listening = TRUE
    /\ thrown = NoError
    /\ hist = [made |-> 1, startAt |-> 0, failAt |-> NoTimer, errs |-> <<>>, opened |-> TRUE,
               live |-> 0]

\* one connection, of any engine and role
Init ==
    /\ br \in [Bridges -> {NewBridge(k) : k \in Kinds \cup {"unused"}}]
    /\ br["b1"].kind \in Kinds
    /\ \A b \in Bridges \ {"b1"} : br[b].kind = "unused"
    /\ proc = "running"
    /\ ProbeDone
    /\ ManagerSteady
    /\ lib = NoLib
    /\ wire = NoWire

Next == \E b \in Bridges : BridgeNext(b)

Spec == Init /\ [][Next]_vars

\* one connection whose pump always completes: once the last stream of the
\* chain has finished or was destroyed, its completion callback is called
SpecLive == Spec /\ \A b \in Bridges : WF_vars(PumpDone(b))

\* SIGINT or SIGTERM arrives: index.js registers listeners for
\* 'uncaughtException' and 'unhandledRejection' only, so the signal has its
\* default disposition and the process ends at once; no handler of any bridge
\* runs
Shutdown ==
    /\ Running
    /\ proc' = "killed"
    /\ UNCHANGED <<br, probeVars, mgrVars, lib, wire>>

\* one connection in a process that can be shut down from outside
SpecShutdown == Init /\ [][Next \/ Shutdown]_vars

\* two connections in one process, of any two engines and roles
\* (the two slots are interchangeable: each pair of kinds is taken once)
InitPair ==
    /\ br \in [Bridges -> {NewBridge(k) : k \in Kinds}]
    /\ KindRank(br["b1"].kind) <= KindRank(br["b2"].kind)
    /\ proc = "running"
    /\ ProbeDone
    /\ ManagerSteady
    /\ lib = NoLib
    /\ wire = NoWire

SpecPair == InitPair /\ [][Next]_vars

\* createTcpClient from its call to the bound listener or the rejection
InitProbe ==
    /\ br = [b \in Bridges |-> NewBridge("tcpC")]
    /\ proc = "running"
    /\ pc = "start"
    /\ attempts = ProbeAttempts
    /\ lastError = NoError
    /\ clock = 0
    /\ timer = NoTimer
    /\ testSocket = "none"
    /\ listening = FALSE
    /\ thrown = NoError
    /\ hist = [made |-> 0, startAt |-> 0, failAt |-> NoTimer, errs |-> <<>>, opened |-> FALSE,
               live |-> 0]
    /\ ManagerSteady
    /\ lib = NoLib
    /\ wire = NoWire

SpecProbe == InitProbe /\ [][ProbeNext]_vars

\* --port / --local-port / --remote-port, as typed
PortArgs ==
    { <<>>, <<"x">>, <<"8">>, <<"8", "0">>, <<"8", "x">>,
      <<"8", ",", "8", "0">>, <<"8", "0", ",", "8">>, <<"8", ",", "x">>, <<"8", ",", "8">> }
LocalPortArgs ==
    { <<"x">>, <<"8", "0">>, <<"9">>, <<"9", ",", "8">>, <<"8", ",", "9", "0">> }
\* --protocol, as typed: words separated by commas and blanks
ProtocolArgs ==
    { <<>>, <<"tcp">>, <<"tcpudp">>, <<"foo">>, <<"tcp", ",", "udp">>,
      <<"udp", " ", "tcpudp">>, <<"tcp", ",", " ", "tcp">>,
      <<"tcp", ",", "udp", ",", "tcpudp">> }
\* the public keys a server has printed
PublicKeyArgs == {Base58Encode(RootPublicKey(s)) : s \in Secrets}
ConfigPorts == {80}
ConfigLocalPorts == {NoPort, 8080}
ConfigHosts == {DefaultHost, "192.168.0.2"}
\* the forwarders of a configuration file
ConfigForwarders ==
    {ServerConfig(p, n, h, s, c) :
         p \in Protos, n \in ConfigPorts, h \in ConfigHosts, s \in Secrets, c \in BOOLEAN}
    \cup {ClientConfig(p, n, l, Base58Encode(RootPublicKey("s1"))) :
              p \in Protos, n \in ConfigPorts, l \in ConfigLocalPorts}
ConfigFiles ==
    {<<a>> : a \in ConfigForwarders} \cup {<<a, b>> : a \in ConfigForwarders, b \in ConfigForwarders}

Argv(command, port, localPort, remotePort, protocol, secret, publicKey, config) ==
    [command |-> command, port |-> port, host |-> DefaultHost, localPort |-> localPort,
     remotePort |-> remotePort, protocol |-> protocol, secret |-> secret,
     publicKey |-> publicKey, config |-> config]

\* the command lines yargs accepts (every demanded option is present)
CommandLines ==
    {Argv("server", p, <<>>, <<>>, q, s, NoKey, <<>>) :
         p \in PortArgs, q \in ProtocolArgs, s \in {"s1", NoSecret}}
    \cup {Argv("client", <<>>, l, r, q, NoSecret, k, <<>>) :
         l \in LocalPortArgs, r \in PortArgs, q \in ProtocolArgs, k \in PublicKeyArgs}
    \cup {Argv("none", <<>>, <<>>, <<>>, <<>>, NoSecret, NoKey, c) : c \in ConfigFiles \cup {<<>>}}

\* --protocol given more than once, and arrays passed by a caller of the library
ProtocolArrays ==
    { <<>>, <<"tcp">>, <<"foo">>, <<"tcp", "udp">>, <<"tcp", "foo">>, <<" tcp">>,
      <<"udp", "tcpudp", "tcp">> }
ProtocolValues ==
    {JsString(q) : q \in ProtocolArgs} \cup {JsArray(q) : q \in ProtocolArrays}
        \cup {JsUndefined}

\* a call of ConfigManager.parseProtocolList(protocolArg, portCount)
InitParse ==
    /\ \E v \in ProtocolValues, n \in 0..MaxPorts :
          argv = [command |-> "parseProtocolList", protocolArg |-> v, portCount |-> n]
    /\ cli = "called"
    /\ run = NoRun
    /\ fw = <<>>
    /\ out = <<>>
    /\ lib = NoLib
    /\ wire = NoWire
    /\ proc = "running"
    /\ br = [b \in Bridges |-> NewBridge("unused")]
    /\ ProbeDone

\* the call returns; out holds the returned array
ParseProtocols ==
    /\ cli = "called"
    /\ out' = parseProtocolList(argv.protocolArg, argv.portCount)
    /\ cli' = "returned"
    /\ UNCHANGED <<br, proc, probeVars, argv, run, fw, lib, wire>>

SpecParse == InitParse /\ [][ParseProtocols]_vars

\* the process at CLI.main()
InitRun ==
    /\ argv \in CommandLines
    /\ cli = "main"
    /\ run = NoRun
    /\ fw = <<>>
    /\ out = <<>>
    /\ lib = NoLib
    /\ wire = NoWire
    /\ proc = "running"
    /\ br = [b \in Bridges |-> NewBridge("unused")]
    /\ pc = "start"
    /\ attempts = ProbeAttempts
    /\ lastError = NoError
    /\ clock = 0
    /\ timer = NoTimer
    /\ testSocket = "none"
    /\ listening = FALSE
    /\ thrown = NoError
    /\ hist = [made |-> 0, startAt |-> 0, failAt |-> NoTimer, errs |-> <<>>, opened |-> FALSE,
               live |-> 0]

SpecRun == InitRun /\ [][RunNext]_vars

\* a program that uses the DHTRelay class: the instances are constructed and
\* initialize() / createRelay() is called on them, up to MaxCalls times
InitRelay ==
    /\ lib = NoLib
    /\ wire = NoWire
    /\ br = [b \in Bridges |-> NewBridge("unused")]
    /\ proc = "running"
    /\ ProbeDone
    /\ ManagerSteady

\* relay.initialize() / relay.createRelay() is called
Initialize(c, r) ==
    /\ Running /\ lib.calls[c].st = "idle"
    /\ \A d \in CallIds : d < c => lib.calls[d].st # "idle"
    /\ lib' = initialize(lib, c, r)
    /\ UNCHANGED <<br, proc, probeVars, mgrVars, wire>>

\* this.node.ready() resolves: the call that awaits it returns `this`
NodeReady(r) ==
    /\ Running /\ lib.relay[r] = "starting"
    /\ lib' = [lib EXCEPT !.relay[r] = "ready",
                          !.calls = [c \in CallIds |->
                                        IF @[c].on = r /\ @[c].st = "awaitReady"
                                        THEN [@[c] EXCEPT !.st = "resolved", !.ready = TRUE]
                                        ELSE @[c]]]
    /\ UNCHANGED <<br, proc, probeVars, mgrVars, wire>>

\* this.node.ready() rejects: the call that awaits it rejects; this.node stays set
NodeNotReady(r) ==
    /\ Running /\ lib.relay[r] = "starting"
    /\ lib' = [lib EXCEPT !.relay[r] = "failed",
                          !.calls = [c \in CallIds |->
                                        IF @[c].on = r /\ @[c].st = "awaitReady"
                                        THEN [@[c] EXCEPT !.st = "rejected"]
                                        ELSE @[c]]]
    /\ UNCHANGED <<br, proc, probeVars, mgrVars, wire>>

RelayNext ==
    \/ \E c \in CallIds, r \in Instances : Initialize(c, r)
    \/ \E r \in Instances : NodeReady(r)
    \/ \E r \in Instances : NodeNotReady(r)

SpecRelay == InitRelay /\ [][RelayNext]_vars

\* the server engine a client engine reaches
Peer(k) == CASE k = "tcpC" -> "tcpS" [] k = "udpC" -> "udpS" [] k = "tuC" -> "tuS"

\* one tunnel of any engine with its payload followed: b1 is the bridge of
\* the client and b2 the bridge of the server it reaches (a process exit on
\* either side ends the run)
InitFlow ==
    /\ \E k \in ClientKinds :
          br = [b \in Bridges |-> NewBridge(IF b = "b1" THEN k ELSE Peer(k))]
    /\ wire = [NoWire EXCEPT !.on = TRUE]
    /\ lib = NoLib
    /\ proc = "running"
    /\ ProbeDone
    /\ ManagerSteady

\* the application writes its next chunk to the client's local port: on its
\* accepted TCP connection, or as a datagram to the bound UDP socket
AppWrite ==
    /\ Running /\ wire.on /\ Len(wire.sent) < MaxChunks
    /\ IF br["b1"].kind = "udpC"
       THEN br["b1"].st = "live"
       ELSE wire.conn = "accepted"
    /\ ~br["b1"].localReadEnded /\ ~br["b1"].localDestroyed
    /\ wire' = [wire EXCEPT !.sent = Append(@, Len(@) + 1),
                            !.app = Append(@, Len(wire.sent) + 1)]
    /\ UNCHANGED <<br, proc, probeVars, mgrVars, lib>>

\* the target service answers the next chunk it has received with the same
\* bytes (http-test-server.js: /echo)
TargetEcho ==
    /\ Running /\ wire.on /\ wire.echoed < Len(wire.target)
    /\ ~br["b2"].localReadEnded /\ ~br["b2"].localDestroyed
    /\ wire' = [wire EXCEPT !.echoed = @ + 1,
                            !.resp = Append(@, wire.target[wire.echoed + 1])]
    /\ UNCHANGED <<br, proc, probeVars, mgrVars, lib>>

\* the application opens a TCP connection to the local port of a UDP client:
\* createUdpClient binds a dgram socket and no net.Server, so nothing accepts
AppConnectRefused ==
    /\ Running /\ wire.on /\ wire.conn = "none"
    /\ br["b1"].kind = "udpC" /\ br["b1"].st = "live"
    /\ wire' = [wire EXCEPT !.conn = "refused"]
    /\ UNCHANGED <<br, proc, probeVars, mgrVars, lib>>

\* the handlers of a session none of whose timers fires (the connect and idle
\* timers are followed, without the payload, by Spec and SpecPair)
FlowBridgeNext(b) ==
    \/ TcpServerConnection(b)
    \/ TcpClientConnection(b)
    \/ TcpRemoteOpen(b)
    \/ TcpConnectTimeout(b)
    \/ TcpLocalError(b)
    \/ TcpRemoteError(b)
    \/ TcpLocalEnd(b)
    \/ TcpRemoteEnd(b)
    \/ TcpLocalData(b)
    \/ TcpRemoteData(b)
    \/ PumpDone(b)
    \/ UdpServerNext(b)
    \/ UdpClientNext(b)
    \/ TuServerConnection(b)
    \/ TuSocketConnect(b)
    \/ TuClientConnection(b)
    \/ TuClientOpen(b)
    \/ TuClientConnectError(b)
    \/ TuClientConnectTimeout(b)
    \/ TuClientEarlyLocalError(b)
    \/ \E throws \in BOOLEAN : TuLocalData(b, throws)
    \/ \E throws \in BOOLEAN : TuRemoteMessage(b, throws)
    \/ TuEarlyMessage(b)
    \/ TuLocalClose(b)
    \/ TuLocalEnd(b)
    \/ TuLocalError(b)
    \/ TuRemoteClose(b)
    \/ TuRemoteEnd(b)
    \/ TuRemoteError(b)

FlowNext ==
    \/ \E b \in Bridges : FlowBridgeNext(b)
    \/ AppWrite
    \/ TargetEcho
    \/ AppConnectRefused

SpecFlow == InitFlow /\ [][FlowNext]_vars

----------------------------------------------------------------------------
(* Properties *)

Closed(r, side) ==
    IF side = "local" THEN r.localWriteEnded \/ r.localDestroyed
                      ELSE r.remoteWriteEnded \/ r.remoteDestroyed
BothClosed(r) == Closed(r, "local") /\ Closed(r, "remote")
Wrote(r) == r.io \in {"toLocal", "toOverlay"}
Dropped(r) == r.io \in {"dropLocal", "dropOverlay"}

\* C1: in the TCP engine, after the local application has half-closed (the
\* local socket emitted 'end') and with no error or timeout, the opposite
\* direction stays usable until the overlay has ended too: the local socket
\* is still writable and the bridge is neither destroyed nor torn down.
C1_HalfCloseKeepsOpposite ==
    \A b \in Bridges :
        ( /\ br[b].kind \in TcpKinds
          /\ ~br[b].fault
          /\ br[b].localReadEnded
          /\ ~br[b].remoteReadEnded )
        => ( /\ LocalWritable(br[b])
             /\ ~br[b].destroyed
             /\ ~br[b].pumped )

\* C2: teardown is one-shot. The body of cleanup() runs at most once, so
\* destroyed is set at most once and is never reset, and the body of
\* cleanup()/gracefulClose() calls end()/close() at most once per endpoint,
\* however often it is invoked.
C2_TeardownOneShot ==
    \A b \in Bridges :
        /\ br[b].bodyRuns <= 1
        /\ br[b].cEndL <= 1
        /\ br[b].cEndO <= 1
        /\ br[b].kind \in TcpKinds \cup {"udpS"} =>
              /\ br[b].destroyed <=> br[b].bodyRuns = 1
              /\ br[b].cEndL = br[b].bodyRuns
              /\ br[b].cEndO = br[b].bodyRuns
        /\ br[b].kind \in TuKinds =>
              /\ br[b].cEndL = 1 => br[b].tcpEnded
              /\ br[b].cEndO = 1 => br[b].udpEnded

\* cleanup()/gracefulClose() was invoked again after its body had run
C2_Witness ==
    \E b \in Bridges :
        /\ br[b].cleanupCalls >= 2
        /\ br[b].cEndL = 1
        /\ br[b].cEndO = 1

\* C3: in the TCP engine and the UDP server, no handler that runs while
\* destroyed is true writes data or a datagram to either endpoint.
C3_NoWriteAfterDestroyed ==
    \A b \in Bridges :
        (br[b].kind \in TcpKinds \cup {"udpS"} /\ br[b].destroyed) => ~Wrote(br[b])

\* data arrived on a destroyed bridge and was not forwarded
C3_Witness ==
    \E b \in Bridges :
        /\ br[b].kind \in TcpKinds \cup {"udpS"}
        /\ br[b].destroyed
        /\ Dropped(br[b])

\* teardown of a TCP-over-datagram bridge has begun: gracefulClose() has run,
\* or the overlay session was ended after a local end/close
TeardownBegun(r) ==
    \/ r.cleanupCalls > 0
    \/ r.remoteWriteEnded /\ (r.localReadEnded \/ r.localClosed)

\* C4: in the TCP-over-datagram engine, no handler that runs after teardown
\* has begun sends a datagram on the overlay or writes to the local socket.
C4_NoForwardAfterTeardown ==
    \A b \in Bridges :
        (br[b].kind \in TuKinds /\ TeardownBegun(br[b])) => ~Wrote(br[b])

\* C5: when the error handler of one endpoint has run, the other endpoint of
\* the bridge has had end() or destroy() called on it.
C5_ErrorClosesOtherSide ==
    \A b \in Bridges :
        /\ (Running /\ br[b].ev = "localError") => Closed(br[b], "remote")
        /\ (Running /\ br[b].ev = "remoteError") => Closed(br[b], "local")

TimerExpired(b) ==
    \/ TcpConnectTimeout(b)
    \/ TcpLocalTimeout(b)
    \/ TuLocalTimeout(b)
    \/ (TuClientConnectTimeout(b) /\ br[b].st = "connecting")

\* C6: a step in which a timer of bridge b expires leaves both endpoints of b
\* closed and changes no other bridge.
C6_TimerCleansItsBridge ==
    [][ \A b \in Bridges :
          TimerExpired(b) =>
              /\ BothClosed(br'[b])
              /\ \A c \in Bridges \ {b} : br'[c] = br[c] ]_vars

ErrorOn(b) ==
    \/ TcpLocalError(b) \/ TcpRemoteError(b)
    \/ UdpLocalError(b) \/ UdpRemoteError(b)
    \/ UdpClientLocalError(b) \/ UdpClientRemoteError(b)
    \/ TuClientConnectError(b) \/ TuClientEarlyLocalError(b)
    \/ TuLocalError(b) \/ TuRemoteError(b)

\* C7: a step in which a timer of bridge b expires or an endpoint of b emits
\* 'error' changes only bridge b: every other bridge is unchanged and the
\* process (with its listeners and tunnels) keeps running.
C7_FaultIsLocalToBridge ==
    [][ \A b \in Bridges :
          (TimerExpired(b) \/ ErrorOn(b)) =>
              /\ proc' = "running"
              /\ \A c \in Bridges \ {b} : br'[c] = br[c] ]_vars

\* C8: when a send or write has thrown inside a handler of bridge b, the
\* bridge has been cleaned up (both endpoints closed) and the process is
\* still running.
C8_ThrowIsContained ==
    \A b \in Bridges :
        br[b].io = "threw" => (proc = "running" /\ BothClosed(br[b]))

\* C9: the probe connects at most ProbeAttempts times; an attempt after the
\* first starts RetryDelayMs after the failure before it; the listener is
\* bound only after an attempt has opened; when every attempt has failed the
\* last error is thrown and the listener is never bound.
C9_ProbeBeforeListen ==
    /\ hist.made <= ProbeAttempts
    /\ (hist.made >= 2 /\ pc = "await") => hist.startAt = hist.failAt + RetryDelayMs
    /\ listening => (hist.opened /\ pc = "ready")
    /\ pc = "failed" =>
          /\ ~listening
          /\ ~hist.opened
          /\ hist.made = ProbeAttempts
          /\ Len(hist.errs) = ProbeAttempts
          /\ thrown = hist.errs[Len(hist.errs)]

\* the listener is bound after two failed attempts and a third that opened
C9_Witness ==
    /\ pc = "ready" /\ listening
    /\ hist.made = ProbeAttempts
    /\ Len(hist.errs) = ProbeAttempts - 1

\* C10 as stated: when the probe fails, it has failed within 15 s of the
\* start, all attempts and delays counted, and no listener is bound.
C10_FailsWithin15s ==
    pc = "failed" => (clock <= ProbeTimeoutMs /\ ~listening)

ProbeTotalMs == ProbeAttempts * ProbeTimeoutMs + (ProbeAttempts - 1) * RetryDelayMs

\* C10 (amended): every attempt fails within 15 s of its own start; the
\* startup as a whole fails with a probe error within 47 s of the start
\* (3 attempts of at most 15 s and the two 1 s delays between them), and no
\* listener is bound.
C10_FailsWithinTotal ==
    /\ clock <= ProbeTotalMs
    /\ pc = "await" => clock - hist.startAt <= ProbeTimeoutMs
    /\ pc = "failed" => (thrown # NoError /\ ~listening)

\* the probe has failed by three timeouts, at the latest possible time
C10_Witness ==
    /\ pc = "failed"
    /\ clock = ProbeTotalMs
    /\ thrown = TimeoutError

IsServer(f) == f.cfg.mode = "server"
IsClient(f) == f.cfg.mode = "client"
Forwarders == 1..Len(fw)
\* the probe of a client failed: its overlay node was up and its engine connected
ProbeFailed(f) == IsClient(f) /\ f.st = "failed" /\ f.node /\ f.probes > 0

\* C11: the TcpOverDatagram client bounds its probe like the TCP client: while
\* it waits for 'open' on the probe session a timer is armed, so that the wait
\* ends with the listener bound or with a probe error and never lasts forever.
C11_TuProbeBounded ==
    \A i \in Forwarders :
        IsClient(fw[i]) /\ fw[i].cfg.proto = "tcpudp" /\ fw[i].st = "probe" => fw[i].timer

\* C12: when the probe of one client forwarder fails only that forwarder
\* fails: the process is not exited, so the other forwarders of the same
\* runFromConfig call keep running.
C12_ProbeFailureIsLocal ==
    \A i \in Forwarders : ProbeFailed(fw[i]) => proc = "running"

\* C13: the start of a forwarder completes only after its listener is in
\* place: a resolved ModeHandler promise means a bound listener, and when
\* runFromConfig has resolved every server forwarder is listening.
C13_ResolvedMeansListening ==
    /\ \A i \in Forwarders : fw[i].promise = "resolved" => fw[i].listening
    /\ run.state = "resolved" => \A i \in Forwarders : IsServer(fw[i]) => fw[i].listening

\* C14: a start-up failure of a server forwarder (node start or overlay
\* listen) rejects runFromConfig; it is not raised outside runFromConfig as an
\* unhandled rejection.
C14_ServerFailureRejectsRun ==
    \A i \in Forwarders :
        IsServer(fw[i]) /\ fw[i].st = "failed" => run.state = "rejected" /\ cli # "crashed"

\* the forwarder has derived its sub-key
Derived(f) == f.key.label # ""
SamePair(f, g) == f.cfg.proto = g.cfg.proto /\ f.cfg.port = g.cfg.port

\* C15: a server forwarder exposing (proto, port) and a client forwarder with
\* the same proto and remote port derive the same label proto ++ decimal(port),
\* whatever the client's local port, and with the server's printed key the
\* client derives exactly the sub-public-key the server listens on.
C15_SameLabelOnBothSides ==
    \A i \in Forwarders : \A j \in Forwarders :
        Derived(fw[i]) /\ Derived(fw[j]) /\ IsClient(fw[j]) /\ SamePair(fw[i], fw[j])
        => /\ fw[j].key.label = fw[i].key.label
           /\ IsServer(fw[i]) /\ Glue(fw[j].cfg.publicKey) = fw[i].result
              => fw[j].key = fw[i].key

\* a server and a client of the same (proto, port) are both up, the client
\* bound to another port than the remote one, and their sub-keys are equal
C15_Witness ==
    \E i \in Forwarders : \E j \in Forwarders :
        /\ IsServer(fw[i]) /\ IsClient(fw[j]) /\ SamePair(fw[i], fw[j])
        /\ fw[i].st = "up" /\ fw[j].st = "up"
        /\ fw[j].cfg.localPort # fw[j].cfg.port
        /\ fw[j].key = fw[i].key

LabelPorts == {0, 1, 8, 10, 80, 88, 100, 3000}
\* the label determines the protocol and the port
LabelInjective ==
    \A p \in Protos : \A q \in Protos : \A n \in LabelPorts : \A k \in LabelPorts :
        Label(p, n) = Label(q, k) => p = q /\ n = k

\* C16: distinct (proto, port) pairs yield distinct labels, so two forwarders
\* of one root key never use the same sub-keypair.
C16_DistinctPairsDistinctLabels ==
    /\ \A i \in Forwarders : \A j \in Forwarders :
          Derived(fw[i]) /\ Derived(fw[j]) /\ ~SamePair(fw[i], fw[j])
          => /\ fw[i].key.label # fw[j].key.label
             /\ fw[i].key # fw[j].key
    /\ LabelInjective

\* two servers of one secret listen, on the same port with different
\* protocols or with the same protocol on ports 8 and 80
C16_Witness ==
    \E i \in Forwarders : \E j \in Forwarders :
        /\ IsServer(fw[i]) /\ IsServer(fw[j]) /\ fw[i].st = "up" /\ fw[j].st = "up"
        /\ fw[i].cfg.secret = fw[j].cfg.secret
        /\ fw[i].cfg.proto = fw[j].cfg.proto
        /\ fw[i].cfg.port = 8 /\ fw[j].cfg.port = 80

OptionValue(line, opt) == line[(CHOOSE k \in 1..Len(line) : line[k] = opt) + 1]
IsConsolidated(line) == \E k \in 1..Len(line) : line[k] = "-l"
Returned(f) == IsServer(f) /\ f.result # ""

\* C17: the key ModeHandler.server returns depends on the secret only: two
\* server forwarders of one secret return the same base58 key, and it is the
\* key of the consolidated client command.
C17_RootKeyOfSecret ==
    /\ \A i \in Forwarders : \A j \in Forwarders :
          Returned(fw[i]) /\ Returned(fw[j]) /\ fw[i].cfg.secret = fw[j].cfg.secret
          => fw[i].result = fw[j].result
    /\ \A i \in Forwarders : \A k \in 1..Len(out) :
          Returned(fw[i]) /\ IsConsolidated(out[k])
          /\ fw[i].cfg.secret = Servers([j \in Forwarders |-> fw[j].cfg])[1].secret
          => OptionValue(out[k], "-k") = fw[i].result

\* two servers of one secret that differ in protocol and host have returned
\* their key and the consolidated command is on the console
C17_Witness ==
    \E i \in Forwarders : \E j \in Forwarders :
        /\ Returned(fw[i]) /\ Returned(fw[j])
        /\ fw[i].cfg.proto # fw[j].cfg.proto /\ fw[i].cfg.host # fw[j].cfg.host
        /\ fw[i].cfg.secret = fw[j].cfg.secret
        /\ \E k \in 1..Len(out) : IsConsolidated(out[k])

ServerCfgs == Servers([j \in Forwarders |-> fw[j].cfg])
ShareOneSecret(cfgs) == \A i \in 1..Len(cfgs) : cfgs[i].secret = cfgs[1].secret
PortsOf(line) == IF IsConsolidated(line) THEN OptionValue(line, "-l") ELSE OptionValue(line, "-p")

\* C18: when all server forwarders share one secret exactly one client command
\* is printed; it holds the public key and lists the port and the protocol of
\* every server forwarder in input order.
C18_OneCommandForOneSecret ==
    ServerCfgs # <<>> /\ ShareOneSecret(ServerCfgs)
    => /\ Len(out) = 1
       /\ OptionValue(out[1], "-k") = Glue(Base58Encode(RootPublicKey(ServerCfgs[1].secret)))
       /\ PortsOf(out[1]) = JoinComma([i \in 1..Len(ServerCfgs) |-> Decimal(ServerCfgs[i].port)])
       /\ OptionValue(out[1], "--protocol")
              = JoinComma([i \in 1..Len(ServerCfgs) |-> ServerCfgs[i].proto])

\* C19: every server forwarder that is started has a printed client command
\* that holds its base58 root public key.
C19_EveryServerHasCommand ==
    \A i \in Forwarders :
        IsServer(fw[i])
        => \E k \in 1..Len(out) :
              OptionValue(out[k], "-k") = Glue(Base58Encode(RootPublicKey(fw[i].cfg.secret)))

\* the command line is malformed: no valid port, or a number of protocols
\* (a single one being replicated) that differs from the number of ports
Malformed(a) ==
    \/ /\ a.command = "server"
       /\ LET ports == parsePortList(a.port) IN
          Len(ports) = 0 \/ Len(parseProtocolList(JsString(a.protocol), Len(ports))) # Len(ports)
    \/ /\ a.command = "client"
       /\ LET localPorts == parsePortList(a.localPort)
              remotePorts == parsePortList(a.remotePort) IN
          \/ Len(localPorts) = 0 \/ Len(remotePorts) = 0
          \/ Len(parseProtocolList(JsString(a.protocol), Len(localPorts))) # Len(localPorts)

\* C20: on a malformed command line the process exits at start-up before any
\* forwarder is started: no overlay node, no listener, no probe.
C20_ConfigErrorBeforeStart ==
    [][/\ cli = "main" /\ Malformed(argv)
          => cli' = "configError" /\ proc' = "exited" /\ fw' = <<>> /\ run' = NoRun
       /\ cli = "configError" => fw' = <<>>]_vars

\* the process has exited on a configuration error with no forwarder started
C20_Witness == cli = "configError" /\ proc = "exited" /\ fw = <<>> /\ run = NoRun

\* C21: within one process all forwarders share a single overlay node: once
\* forwarders have been started, exactly one overlay node has been created.
C21_OneSharedNode == Len(fw) > 0 => lib.nodes = 1

\* C22: whenever initialize() (and so createRelay()) has resolved, ready() of
\* the instance's overlay node had completed, also for a call that overlaps
\* an earlier call on the same instance.
C22_ResolvedMeansReady ==
    \A c \in CallIds : lib.calls[c].st = "resolved" => lib.calls[c].ready

\* C23: in the UDP client inport is set by the first local datagram and never
\* changes afterwards; every overlay datagram handled after that is sent to
\* that port; a later local datagram from another source port is still
\* forwarded to the overlay and does not replace inport.
C23_InportLatched ==
    [][\A b \in Bridges :
          br[b].kind = "udpC" /\ br'[b] # br[b]
          => /\ br[b].inport # NoPort => br'[b].inport = br[b].inport
             /\ br'[b].ev = "localMessage"
                => /\ br[b].inport = NoPort => br'[b].inport = br'[b].rinfo
                   /\ br'[b].io \in {"toOverlay", "threw"}
             /\ br'[b].ev = "remoteMessage" /\ br'[b].io = "toLocal"
                => br[b].inport # NoPort /\ br'[b].dest = br[b].inport]_vars

\* an overlay datagram was sent to the port of the first local datagram after
\* a local datagram from another port had been forwarded
C23_Witness ==
    \E b \in Bridges :
        /\ br[b].kind = "udpC"
        /\ br[b].inport # NoPort /\ br[b].rinfo # NoPort /\ br[b].rinfo # br[b].inport
        /\ br[b].ev = "remoteMessage" /\ br[b].io = "toLocal"
        /\ br[b].dest = br[b].inport

\* C24: in the UDP client an overlay datagram handled before any local
\* datagram (inport not set) is dropped: nothing is sent on the local socket,
\* no error is raised and the session goes on.
C24_EarlyDatagramDropped ==
    \A b \in Bridges :
        br[b].kind = "udpC" /\ br[b].ev = "remoteMessage" /\ br[b].inport = NoPort
        => br[b].io = "dropLocal" /\ ~br[b].fault /\ proc = "running"

\* the chunks of s are chunks of t, each once and in the order of t (the
\* application numbers its chunks in the order it writes them)
InOrder(s, t) ==
    /\ \A i \in 1..Len(s) : \E j \in 1..Len(t) : t[j] = s[i]
    /\ \A i, j \in 1..Len(s) : i < j => s[i] < s[j]

\* every chunk the target service has written, in order
Replied == SubSeq(wire.target, 1, wire.echoed)

\* no end, close, error or teardown has touched the bridge or its endpoints
Untouched(r) ==
    /\ ~r.fault /\ ~r.destroyed
    /\ ~r.tcpEnded /\ ~r.udpEnded /\ ~r.hTcpEnded /\ ~r.hUdpEnded
    /\ ~r.localReadEnded /\ ~r.localWriteEnded /\ ~r.localDestroyed /\ ~r.localClosed
    /\ ~r.remoteReadEnded /\ ~r.remoteWriteEnded /\ ~r.remoteDestroyed /\ ~r.remoteClosed

\* what arrived was written, and arrived once and in order, in both directions
InOrderOnce == InOrder(wire.target, wire.sent) /\ InOrder(wire.back, Replied)

\* every chunk written is delivered or still on its way, in order
Conserved ==
    /\ wire.sent = wire.target \o wire.up \o wire.app
    /\ Replied = wire.back \o wire.down \o wire.resp

\* C25: in the TCP-over-datagram engine the bytes written to the TCP socket
\* on one side are the bytes the application wrote on the other side, once
\* and in order; while the session is untouched by an end or error nothing is
\* lost, a datagram that reaches the server before 'connect' of its local
\* socket included.
C25_TuBytesPreserved ==
    wire.on /\ br["b1"].kind = "tuC"
    => /\ InOrderOnce
       /\ Untouched(br["b1"]) /\ Untouched(br["b2"]) => Conserved

C28_TcpConnectionRelayed == wire.on => wire.conn # "refused" /\ InOrderOnce

\* the letters of a protocol name as typed on the command line
Letters(proto) ==
    CASE proto = "tcp" -> <<"t", "c", "p">>
      [] proto = "udp" -> <<"u", "d", "p">>
      [] proto = "tcpudp" -> <<"t", "c", "p", "u", "d", "p">>

\* output.match(/npx hyper-nat client -p \d+ --protocol \w+ -k ([A-Za-z0-9]+)/)
MatchesClientCommand(line, cfg) ==
    /\ Len(line) = 9
    /\ SubSeq(line, 1, 4) = <<"npx", "hyper-nat", "client", "-p">>
    /\ line[5] = Decimal(cfg.port)
    /\ SubSeq(line, 6, 8) = <<"--protocol", cfg.proto, "-k">>
    /\ line[9] = Glue(Base58Encode(RootPublicKey(cfg.secret)))

\* output.includes(`listening for remote connections for ${protocol}`)
IncludesListening(line, proto) ==
    /\ Len(line) >= 1 + Len(Letters(proto))
    /\ SubSeq(line, 1, 1 + Len(Letters(proto)))
           = <<"listening for remote connections for">> \o Letters(proto)

\* C29: a server started by the CLI server command with one port, a protocol
\* P and a secret prints the client command `npx hyper-nat client -p <port>
\* --protocol P -k <key>` and the line `listening for remote connections for
\* P`: once it listens, a reader of its console has both.
C29_ServerPrintsKeyAndListening ==
    Len(fw) = 1 /\ run.consolidated /\ IsServer(fw[1]) /\ fw[1].st = "up"
    => /\ \E k \in 1..Len(out) : MatchesClientCommand(out[k], fw[1].cfg)
       /\ \E k \in 1..Len(fw[1].log) : IncludesListening(fw[1].log[k], fw[1].cfg.proto)

\* the TCP connection of the server bridge to (host, port) has failed and the
\* target service has never answered on it
Refused(r) == r.kind = "tcpS" /\ r.fault /\ r.localDestroyed /\ wire.echoed = 0

\* C30: in the TCP server, if the TCP connection to (host, port) is refused
\* the bridge becomes destroyed, both endpoints are ended and no payload byte
\* is written to the overlay stream.
C30_RefusedConnectionTearsDown ==
    wire.on /\ Refused(br["b2"])
    => /\ br["b2"].destroyed
       /\ br["b2"].localWriteEnded /\ br["b2"].remoteWriteEnded
       /\ wire.resp = <<>> /\ wire.down = <<>> /\ wire.back = <<>>

\* the application has written its request, the server's connection to the
\* target has failed with an error and the bridge is torn down
C30_Witness ==
    /\ wire.on /\ Refused(br["b2"])
    /\ br["b2"].ev = "localError" /\ br["b2"].destroyed
    /\ wire.sent # <<>>

\* C31: in the TCP-over-datagram engine both directions end together: once
\* the local socket has emitted 'end' nothing more is written to it, and once
\* the overlay session has emitted 'end' nothing more is sent on it.
C31_BothDirectionsEndTogether ==
    \A b \in Bridges :
        br[b].kind \in TuKinds =>
            /\ ~(br[b].localReadEnded /\ br[b].io = "toLocal")
            /\ ~(br[b].remoteReadEnded /\ br[b].io = "toOverlay")

\* C32: every local connection accepted by a TCP or TCP-over-datagram client
\* has opened exactly one overlay session of its own, also after its connect
\* has failed or timed out, and no chunk is sent on the overlay twice.
C32_OneSessionPerConnection ==
    \A b \in Bridges :
        br[b].kind \in {"tcpC", "tuC"} =>
            /\ br[b].connects = (IF br[b].st = "none" THEN 0 ELSE 1)
            /\ wire.on => InOrder(wire.target \o wire.up, wire.sent)

\* the connect of an accepted connection has failed or timed out
C32_Witness ==
    \E b \in Bridges :
        /\ br[b].kind \in {"tcpC", "tuC"}
        /\ br[b].connects = 1
        /\ br[b].fault
        /\ ~br[b].connected

\* C33: in the UDP client, once the persistent overlay session has errored or
\* ended, the local UDP socket is closed and no local datagram is sent on the
\* dead session.
C33_UdpClientCleansUp ==
    \A b \in Bridges :
        (br[b].kind = "udpC" /\ Running
            /\ (br[b].remoteDestroyed \/ br[b].remoteReadEnded)) =>
            /\ br[b].localDestroyed
            /\ br[b].io # "toOverlay"

\* both directions of a TCP bridge have ended, or an error or a timeout has
\* occurred on it
TcpTerminated(r) ==
    /\ r.kind \in TcpKinds /\ r.st = "live"
    /\ (r.localReadEnded /\ r.remoteReadEnded) \/ r.fault

\* C34: every TCP-engine bridge whose two directions have ended, or on which
\* an error or a timeout has occurred, is eventually destroyed: cleanup() has
\* run and both endpoints are closed.
C34_TcpBridgeEventuallyDestroyed ==
    \A b \in Bridges :
        TcpTerminated(br[b]) ~> (br[b].destroyed /\ BothClosed(br[b]))

\* a bridge that ended naturally in both directions and was then destroyed
C34_Witness ==
    \E b \in Bridges :
        /\ br[b].kind \in TcpKinds
        /\ br[b].localReadEnded /\ br[b].remoteReadEnded /\ ~br[b].fault
        /\ br[b].destroyed /\ BothClosed(br[b])

\* C35: when the process has been shut down from outside, every bridge that
\* was live had end() or destroy() called on both of its endpoints.
C35_ShutdownEndsBridges ==
    proc = "killed" =>
        \A b \in Bridges :
            br[b].st \in {"connecting", "live"} => BothClosed(br[b])

C37_FailedConnectClosesBoth ==
    \A b \in Bridges :
        br[b].kind = "tuC" =>
            /\ br[b].st = "failed" => (br[b].localDestroyed /\ Closed(br[b], "remote"))
            /\ br[b].ev = "lateTimer" => br[b].st = "live"

\* the endpoints and flags of the bridge are as they were; only the record
\* of the call itself differs
SameBridge(r, q) ==
    [q EXCEPT !.timer = r.timer, !.fault = r.fault, !.cleanupCalls = r.cleanupCalls,
              !.ev = r.ev, !.io = r.io] = r

\* C38: in the TCP client the connect timer never fires on a bridge whose
\* overlay session has opened, and when it fires on a bridge that was already
\* cleaned up it changes neither endpoint nor any flag of the bridge.
C38_ConnectTimerHarmless ==
    [][ \A b \in Bridges :
          TcpConnectTimeout(b) =>
              /\ ~br[b].connected
              /\ br[b].destroyed => SameBridge(br[b], br'[b]) ]_vars

\* the connect timer fired on a bridge that an error had already cleaned up
C38_Witness ==
    \E b \in Bridges :
        /\ br[b].kind = "tcpC"
        /\ br[b].ev = "timeout"
        /\ br[b].cleanupCalls = 2
        /\ br[b].bodyRuns = 1

\* the protocol names an argument gives, in order: the words of a string
\* between commas and blanks, the elements of an array, none when missing
Names(v) ==
    IF v.type = "string" THEN SelectSeq(v.value, LAMBDA c : c \notin {",", " "})
    ELSE IF v.type = "array" THEN v.value
    ELSE <<>>

Validated(name) == IF name \in Protos THEN name ELSE "udp"

\* the list for these names: udp when there is none, a single name repeated
\* for every port, every name outside tcp, udp, tcpudp replaced by udp
ProtocolsFor(names, portCount) ==
    LET given == IF names = <<>> THEN <<"udp">> ELSE names IN
    IF Len(given) = 1 /\ portCount > 1
    THEN [i \in 1..portCount |-> Validated(given[1])]
    ELSE [i \in 1..Len(given) |-> Validated(given[i])]

KeyEntry(cfg) == [proto |-> cfg.proto, port |-> cfg.port, publicKey |-> ServerPublicKey(cfg)]

ServerIds == {i \in 1..Len(fw) : fw[i].cfg.mode = "server"}

\* C40: when runFromConfig has resolved, its array holds exactly one entry
\* {proto, port, publicKey} for each server spec of the schema and nothing
\* else, in whatever order the forwarders completed.
C40_OneKeyPerServerSpec ==
    run.state = "resolved" =>
        /\ Len(run.publicKeys) = Cardinality(ServerIds)
        /\ \E g \in [1..Len(run.publicKeys) -> ServerIds] :
              /\ \A j, k \in 1..Len(run.publicKeys) : j # k => g[j] # g[k]
              /\ \A k \in 1..Len(run.publicKeys) : run.publicKeys[k] = KeyEntry(fw[g[k]].cfg)

\* two server specs resolved in the reverse of the schema's order
C40_Witness ==
    /\ run.state = "resolved"
    /\ Len(fw) = 2 /\ ServerIds = {1, 2}
    /\ fw[1].cfg.proto # fw[2].cfg.proto
    /\ run.publicKeys = <<KeyEntry(fw[2].cfg), KeyEntry(fw[1].cfg)>>

====
